---- MODULE Spec2Model ----
(***************************************************************************)
(* CodeMate: the content-addressed store (SQLite schema and statements),   *)
(* the indexing pipeline that writes to it, and the read paths over it.    *)
(*                                                                         *)
(* Strings that the code only compares are TLA+ strings.  Strings that the *)
(* code takes apart (LIKE patterns, prefixes) are sequences of tokens:     *)
(* characters, or the components and separators of a path.  Option<T> is a *)
(* sequence: <<>> is None, <<v>> is Some(v); SQL NULL is the same <<>>.    *)
(* File bytes are small naturals, 9 standing for the newline byte.         *)
(* Timestamps are naturals, in the order of their RFC 3339 texts.          *)
(***************************************************************************)
EXTENDS Integers, Sequences, FiniteSets, Bags, TLC

VARIABLES
    modules,      \* table modules: set of rows, key id
    chunks,       \* table chunks: set of rows, key content_hash
    chunks_fts,   \* virtual table chunks_fts: rows in rowid order
    embeddings,   \* table embeddings: rows in rowid order, key content_hash
    locations,    \* table locations: rows in id (AUTOINCREMENT) order
    edges,        \* table edges: rows in rowid order
    ret,          \* outcome of the last store call: [op, ok, batch]
    hist,         \* bookkeeping of the check: calls made, hashes put
    tasks,        \* the indexing runs: each one's position and locals
    runs,         \* the command line: runs made, their input, the store after each
    qres,         \* the last hybrid query: [q, results]
    reader        \* a module-graph read in progress

storeVars == <<modules, chunks, chunks_fts, embeddings, locations, edges>>
pipeVars == <<tasks, runs, qres, reader>>

-----------------------------------------------------------------------------
(* Bounds of the model *)

\* store calls a behaviour of the store-level specification makes
MaxCalls == 4

\* times the index command is run over the same tree
MaxRuns == 2

-----------------------------------------------------------------------------
(* Generic helpers *)

None == <<>>
Some(v) == <<v>>
IsSome(o) == o # <<>>

Range(s) == {s[i] : i \in DOMAIN s}

RECURSIVE SeqToBag(_)
SeqToBag(s) ==
    IF s = <<>> THEN EmptyBag ELSE SeqToBag(Tail(s)) (+) SetToBag({Head(s)})

RECURSIVE Concat(_)
Concat(ss) == IF ss = <<>> THEN <<>> ELSE Head(ss) \o Concat(Tail(ss))

Filter(s, Keep(_)) == SelectSeq(s, Keep)

-----------------------------------------------------------------------------
(* content_hash.rs *)

\* ContentHash::from_content: SHA-256 of the bytes.  The digest is computed
\* positionally over the bytes (1..9), which is collision-free on the
\* model's contents as SHA-256 is on the program's.
RECURSIVE Sha256Fold(_, _)
Sha256Fold(h, bytes) ==
    IF bytes = <<>> THEN h ELSE Sha256Fold(h * 10 + Head(bytes), Tail(bytes))

from_content(content) == Sha256Fold(0, content)

-----------------------------------------------------------------------------
(* chunk.rs *)

\* str::lines().count(): newline-terminated lines plus a last unterminated one
CountNewlines(bytes) == Cardinality({i \in DOMAIN bytes : bytes[i] = 9})

lines_count(bytes) ==
    CountNewlines(bytes)
        + (IF bytes # <<>> /\ bytes[Len(bytes)] # 9 THEN 1 ELSE 0)

\* Language::from_str / from_extension
Language_from_str(s) ==
    CASE s \in {"rs", "rust"} -> "rust"
      [] s \in {"py", "pyi", "python"} -> "python"
      [] s \in {"ts", "tsx", "typescript"} -> "typescript"
      [] s \in {"js", "jsx", "mjs", "javascript"} -> "javascript"
      [] s \in {"go", "golang"} -> "go"
      [] s = "java" -> "java"
      [] s \in {"tf", "tfvars", "hcl", "terraform"} -> "hcl"
      [] OTHER -> "unknown"

\* Chunk::new
Chunk_new(content, language, kind, symbol_name) ==
    [content_hash |-> from_content(content),
     content      |-> content,
     language     |-> language,
     kind         |-> kind,
     symbol_name  |-> symbol_name,
     byte_size    |-> Len(content),
     line_start   |-> 0,
     line_end     |-> 0,
     line_count   |-> lines_count(content),
     module_id    |-> None]

\* Chunk::with_line_range
with_line_range(chunk, start, end) ==
    [chunk EXCEPT !.line_start = start, !.line_end = end]

\* a slip that would overwrite the content when stamping the module
with_module_id_clobber(chunk, module_id) ==
    [chunk EXCEPT !.module_id = Some(module_id), !.content = <<>>]

\* Chunk::with_module_id
with_module_id(chunk, module_id) ==
    [chunk EXCEPT !.module_id = Some(module_id)]

\* ChunkLocation::new
ChunkLocation_new(content_hash, file_path, byte_start, byte_end, line_start, line_end) ==
    [content_hash |-> content_hash,
     file_path    |-> file_path,
     byte_start   |-> byte_start,
     byte_end     |-> byte_end,
     line_start   |-> line_start,
     line_end     |-> line_end,
     commit_hash  |-> None,
     author       |-> None,
     timestamp    |-> None]

\* ChunkLocation::with_commit / with_author / with_timestamp
with_commit(loc, commit_hash) == [loc EXCEPT !.commit_hash = Some(commit_hash)]
with_author(loc, author) == [loc EXCEPT !.author = Some(author)]
with_timestamp(loc, timestamp) == [loc EXCEPT !.timestamp = Some(timestamp)]

\* Edge::new(...).with_line(...)
Edge_new(source_hash, target_query, kind, line) ==
    [source_hash  |-> source_hash,
     target_query |-> target_query,
     kind         |-> kind,
     line_number  |-> Some(line)]

-----------------------------------------------------------------------------
(* storage/sqlite.rs: schema constraints *)

ChunkHashes(tbl) == {r.content_hash : r \in tbl}
ModuleIds(tbl) == {r.id : r \in tbl}

\* format!("{:?}", chunk.kind).to_lowercase(): the chunk_kind column
KindColumn(kind) ==
    CASE kind = "Function" -> "function"
      [] kind = "Class" -> "class"
      [] kind = "Struct" -> "struct"
      [] kind = "Trait" -> "trait"
      [] kind = "Enum" -> "enum"
      [] kind = "Module" -> "module"
      [] kind = "Impl" -> "impl"
      [] kind = "Block" -> "block"
      [] kind = "Resource" -> "resource"
      [] kind = "DataSource" -> "datasource"
      [] kind = "Variable" -> "variable"
      [] kind = "Output" -> "output"

\* the row ChunkStore::put binds for table chunks
ChunkRow(chunk) ==
    [content_hash |-> chunk.content_hash,
     content      |-> chunk.content,
     language     |-> chunk.language,
     chunk_kind   |-> KindColumn(chunk.kind),
     symbol_name  |-> chunk.symbol_name,
     byte_size    |-> chunk.byte_size,
     line_start   |-> chunk.line_start,
     line_end     |-> chunk.line_end,
     line_count   |-> chunk.line_count,
     module_id    |-> chunk.module_id]

\* the row ChunkStore::put binds for chunks_fts
FtsRow(chunk) ==
    [content_hash |-> chunk.content_hash,
     symbol_name  |-> chunk.symbol_name,
     content      |-> chunk.content]

\* FOREIGN KEY(module_id) REFERENCES modules(id); NULL references nothing
fk_chunk_module(mods, module_id) ==
    module_id = None \/ module_id[1] \in ModuleIds(mods)

\* FOREIGN KEY(source_hash) REFERENCES chunks(content_hash) switched off
fk_edge_source_off(cs, edge) == TRUE

\* FOREIGN KEY(source_hash) REFERENCES chunks(content_hash)
fk_edge_source(cs, edge) == edge.source_hash \in ChunkHashes(cs)

\* FOREIGN KEY(parent_id) REFERENCES modules(id), checked when the statement ends
fk_module_parent(mods, module) ==
    module.parent_id = None
        \/ module.parent_id[1] \in ModuleIds(mods) \cup {module.id}

\* INSERT OR REPLACE that keeps the old row beside the new one
chunks_insert_keep(tbl, row) == tbl \cup {row}

\* INSERT OR REPLACE INTO chunks: PRIMARY KEY content_hash
chunks_insert_or_replace(tbl, row) ==
    {r \in tbl : r.content_hash # row.content_hash} \cup {row}

\* INSERT OR REPLACE INTO embeddings: PRIMARY KEY content_hash
embeddings_insert_or_replace(tbl, row) ==
    LET Keep(old) == old.content_hash # row.content_hash
    IN  Append(SelectSeq(tbl, Keep), row)

\* UNIQUE(content_hash, file_path, commit_hash): SQLite holds two NULLs distinct
locations_conflict(old, new) ==
    /\ old.content_hash = new.content_hash
    /\ old.file_path = new.file_path
    /\ old.commit_hash # None
    /\ old.commit_hash = new.commit_hash

\* INSERT OR REPLACE INTO locations: the rows in conflict go, the new row gets
\* the next id
locations_insert_or_replace(tbl, row) ==
    LET Keep(old) == ~locations_conflict(old, row)
    IN  Append(SelectSeq(tbl, Keep), row)

\* INSERT INTO modules ... ON CONFLICT(id) DO UPDATE
modules_upsert(tbl, row) == {r \in tbl : r.id # row.id} \cup {row}

\* the loop of add_edges that would commit what it inserted before the failure
RECURSIVE add_edges_no_rollback(_, _, _)
add_edges_no_rollback(cs, tbl, batch) ==
    IF batch = <<>> THEN [ok |-> TRUE, edges |-> tbl]
    ELSE IF ~fk_edge_source(cs, Head(batch)) THEN [ok |-> FALSE, edges |-> tbl]
    ELSE add_edges_no_rollback(cs, Append(tbl, Head(batch)), Tail(batch))

\* the statement loop of add_edges inside its transaction: `?` leaves at the
\* first failing INSERT
RECURSIVE add_edges_loop(_, _, _)
add_edges_loop(cs, tbl, batch) ==
    IF batch = <<>> THEN [ok |-> TRUE, edges |-> tbl]
    ELSE IF ~fk_edge_source(cs, Head(batch)) THEN [ok |-> FALSE, edges |-> tbl]
    ELSE add_edges_loop(cs, Append(tbl, Head(batch)), Tail(batch))

\* GraphStore::add_edges: tx.commit() on success, rollback when tx is dropped
add_edges_tx(cs, tbl, batch) ==
    LET r == add_edges_loop(cs, tbl, batch)
    IN  IF r.ok THEN r ELSE [ok |-> FALSE, edges |-> tbl]

-----------------------------------------------------------------------------
(* storage/sqlite.rs: the write operations, as effects on the tables *)

ChunkStore_put_ok(chunk) == fk_chunk_module(modules, chunk.module_id)

\* ChunkStore::put: the chunks statement, then the chunks_fts statement
ChunkStore_put(chunk) ==
    /\ chunks' = IF ChunkStore_put_ok(chunk)
                 THEN chunks_insert_or_replace(chunks, ChunkRow(chunk))
                 ELSE chunks
    /\ chunks_fts' = IF ChunkStore_put_ok(chunk)
                     THEN Append(chunks_fts, FtsRow(chunk))
                     ELSE chunks_fts
    /\ UNCHANGED <<modules, embeddings, locations, edges>>

\* VectorStore::put
VectorStore_put(hash, embedding) ==
    /\ embeddings' = embeddings_insert_or_replace(embeddings,
            [content_hash |-> hash,
             model_id     |-> embedding.model_id,
             vector       |-> embedding.vector,
             dimensions   |-> embedding.dimensions])
    /\ UNCHANGED <<modules, chunks, chunks_fts, locations, edges>>

\* LocationStore::put_location
put_location(location) ==
    /\ locations' = locations_insert_or_replace(locations, location)
    /\ UNCHANGED <<modules, chunks, chunks_fts, embeddings, edges>>

add_edge_ok(edge) == fk_edge_source(chunks, edge)

\* GraphStore::add_edge
add_edge(edge) ==
    /\ edges' = IF add_edge_ok(edge) THEN Append(edges, edge) ELSE edges
    /\ UNCHANGED <<modules, chunks, chunks_fts, embeddings, locations>>

add_edges_ok(batch) == add_edges_tx(chunks, edges, batch).ok

\* GraphStore::add_edges
add_edges(batch) ==
    /\ edges' = add_edges_tx(chunks, edges, batch).edges
    /\ UNCHANGED <<modules, chunks, chunks_fts, embeddings, locations>>

put_module_ok(module) == fk_module_parent(modules, module)

\* ModuleStore::put_module
put_module(module) ==
    /\ modules' = IF put_module_ok(module)
                  THEN modules_upsert(modules, module)
                  ELSE modules
    /\ UNCHANGED <<chunks, chunks_fts, embeddings, locations, edges>>

\* ChunkStore::get: the kind read back from the chunk_kind column
ChunkKind_of_column(kind_str) ==
    CASE kind_str = "function" -> "Function"
      [] kind_str = "class" -> "Class"
      [] kind_str = "struct" -> "Struct"
      [] kind_str = "trait" -> "Trait"
      [] kind_str = "enum" -> "Enum"
      [] kind_str = "module" -> "Module"
      [] kind_str = "impl" -> "Impl"
      [] OTHER -> "Block"

\* ChunkStore::get: the Chunk built from a row
ChunkOfRow(row) ==
    [content_hash |-> row.content_hash,
     content      |-> row.content,
     language     |-> Language_from_str(row.language),
     kind         |-> ChunkKind_of_column(row.chunk_kind),
     symbol_name  |-> row.symbol_name,
     byte_size    |-> row.byte_size,
     line_start   |-> row.line_start,
     line_end     |-> row.line_end,
     line_count   |-> row.line_count,
     module_id    |-> row.module_id]

\* ChunkStore::get: the row of the hash, None for QueryReturnedNoRows
ChunkStore_get(hash) ==
    IF \E r \in chunks : r.content_hash = hash
    THEN Some(ChunkOfRow(CHOOSE r \in chunks : r.content_hash = hash))
    ELSE None

\* ChunkStore::count
count == Cardinality(chunks)

\* SqliteStorage::in_memory / new on a fresh file: init_schema leaves every
\* table empty and foreign keys on
StoreInit ==
    /\ modules = {}
    /\ chunks = {}
    /\ chunks_fts = <<>>
    /\ embeddings = <<>>
    /\ locations = <<>>
    /\ edges = <<>>

-----------------------------------------------------------------------------
(* codemate-parser/src/extractor.rs *)

\* ChunkExtractor::default: chunks of more lines are skipped
max_lines == 100

\* A parsed file is the list of syntax nodes the extractor's walk meets, in
\* document order: [kind, text, start_row, end_row, name, calls, uses].
\* text is the node's bytes, name its identifier child, calls the call
\* expressions below it, uses the use_path children of a use_declaration.

\* the ChunkKind a node kind is extracted as, per language; "" for none
NodeChunkKind(language, node_kind) ==
    CASE language = "rust" /\ node_kind = "function_item" -> "Function"
      [] language = "rust" /\ node_kind = "struct_item" -> "Struct"
      [] language = "rust" /\ node_kind = "enum_item" -> "Enum"
      [] language = "rust" /\ node_kind = "trait_item" -> "Trait"
      [] language = "rust" /\ node_kind = "impl_item" -> "Impl"
      [] language = "rust" /\ node_kind = "mod_item" -> "Module"
      [] language = "python" /\ node_kind = "function_definition" -> "Function"
      [] language = "python" /\ node_kind = "class_definition" -> "Class"
      [] OTHER -> ""

\* node_to_chunk: None when the text has more than max_lines lines
node_to_chunk(node, language, kind) ==
    IF lines_count(node.text) > max_lines THEN None
    ELSE Some(with_line_range(Chunk_new(node.text, language, kind, node.name),
                              node.start_row + 1, node.end_row + 1))

\* extract_rust_edges / extract_python_edges: one calls edge per call expression
RECURSIVE call_edges(_, _)
call_edges(chunk, calls) ==
    IF calls = <<>> THEN <<>>
    ELSE <<Edge_new(chunk.content_hash, Head(calls).target, "calls",
                    Head(calls).row + 1)>>
         \o call_edges(chunk, Tail(calls))

\* the imports edges of a use_declaration / import_statement: their source is
\* the hash of the whole file's content
RECURSIVE import_edges(_, _)
import_edges(content, uses) ==
    IF uses = <<>> THEN <<>>
    ELSE <<Edge_new(from_content(content), Head(uses).text, "imports",
                    Head(uses).row + 1)>>
         \o import_edges(content, Tail(uses))

\* what one node adds to (chunks, edges) in extract_rust_nodes /
\* extract_python_nodes
node_yield(node, content, language) ==
    LET kind == NodeChunkKind(language, node.kind)
        c == IF kind = "" THEN None ELSE node_to_chunk(node, language, kind)
    IN  IF node.kind \in {"use_declaration", "import_statement",
                          "import_from_statement"}
        THEN [chunks |-> <<>>, edges |-> import_edges(content, node.uses)]
        ELSE IF c = None THEN [chunks |-> <<>>, edges |-> <<>>]
        ELSE [chunks |-> c,
              edges  |-> IF kind = "Function"
                         THEN call_edges(c[1], node.calls) ELSE <<>>]

RECURSIVE extract_nodes(_, _, _)
extract_nodes(nodes, content, language) ==
    IF nodes = <<>> THEN [chunks |-> <<>>, edges |-> <<>>]
    ELSE LET y == node_yield(Head(nodes), content, language)
             r == extract_nodes(Tail(nodes), content, language)
         IN  [chunks |-> y.chunks \o r.chunks, edges |-> y.edges \o r.edges]

\* extract_fallback: the whole file as one Block chunk without line range
extract_fallback(content, language) ==
    [chunks |-> <<Chunk_new(content, language, "Block", None)>>, edges |-> <<>>]

\* ChunkExtractor::extract
extract(content, language, nodes) ==
    IF language \in {"rust", "python"}
    THEN extract_nodes(nodes, content, language)
    ELSE extract_fallback(content, language)

\* the bytes of a file: its nodes' texts, one per line
RECURSIVE FileContent(_)
FileContent(nodes) ==
    IF nodes = <<>> THEN <<>>
    ELSE IF Len(nodes) = 1 THEN nodes[1].text
    ELSE nodes[1].text \o <<9>> \o FileContent(Tail(nodes))

\* ChunkExtractor::extract_file: read_to_string fails on a file that is not
\* UTF-8 text
extract_file(file) ==
    IF ~file.readable THEN [ok |-> FALSE, chunks |-> <<>>, edges |-> <<>>]
    ELSE LET r == extract(FileContent(file.nodes),
                          Language_from_str(file.ext), file.nodes)
         IN  [ok |-> TRUE, chunks |-> r.chunks, edges |-> r.edges]

-----------------------------------------------------------------------------
(* codemate-core/src/project.rs *)

RECURSIVE Join(_, _)
Join(parts, sep) ==
    IF parts = <<>> THEN ""
    ELSE IF Len(parts) = 1 THEN parts[1]
    ELSE parts[1] \o sep \o Join(Tail(parts), sep)

\* Path::to_string_lossy: the components with a separator between them
RECURSIVE to_string_lossy(_)
to_string_lossy(path) ==
    IF Len(path) <= 1 THEN path
    ELSE <<path[1], "/">> \o to_string_lossy(Tail(path))

\* scan_directory: "root" for the index root, else the components joined by ::
current_id(rel_path) == IF rel_path = <<>> THEN "root" ELSE Join(rel_path, "::")

\* scan_directory: the module of one directory; its parent is the id of the
\* directory above it, unless that is its own id
scan_directory(dir) ==
    LET pid == current_id(SubSeq(dir.path, 1, Len(dir.path) - 1))
    IN  [id           |-> current_id(dir.path),
         name         |-> dir.name,
         path         |-> dir.path,
         language     |-> dir.language,
         project_type |-> dir.project_type,
         parent_id    |-> IF dir.path = <<>> \/ pid = current_id(dir.path)
                          THEN None ELSE Some(pid)]

\* detect_modules: self.modules.insert(module.id, module) per directory, in
\* the order of the scan; of the directories of one id the last one stays
detect_modules(dirs) ==
    {scan_directory(dirs[i]) :
        i \in {k \in DOMAIN dirs :
                 \A j \in DOMAIN dirs :
                    j > k => current_id(dirs[j].path) # current_id(dirs[k].path)}}

\* HashMap::values(): the modules in some order, the same for the life of
\* the detector
IterationOrders(mods) ==
    {o \in [1..Cardinality(mods) -> mods] :
        \A i, j \in DOMAIN o : i # j => o[i] # o[j]}

\* Path::starts_with, by components
starts_with(path, prefix) ==
    Len(prefix) <= Len(path) /\ SubSeq(path, 1, Len(prefix)) = prefix

\* module.path.matches('/').count()
path_depth(path) == IF path = <<>> THEN 0 ELSE Len(path) - 1

\* find_module_for_file: the loop over modules.values() with depth >= best_depth
RECURSIVE find_module_loop(_, _, _, _)
find_module_loop(order, rel_path, best_match, best_depth) ==
    IF order = <<>> THEN best_match
    ELSE LET module == Head(order)
             hit == (starts_with(rel_path, module.path) \/ module.path = <<>>)
                    /\ path_depth(module.path) >= best_depth
         IN  find_module_loop(Tail(order), rel_path,
                 IF hit THEN Some(module) ELSE best_match,
                 IF hit THEN path_depth(module.path) ELSE best_depth)

\* get_module_id_for_file
get_module_id_for_file(order, rel_path) ==
    LET m == find_module_loop(order, rel_path, None, 0)
    IN  IF m = None THEN None ELSE Some(m[1].id)

-----------------------------------------------------------------------------
(* storage/sqlite.rs: QueryStore::query *)

\* let k = 60.0
k_rrf == 60

\* ... ORDER BY rank LIMIT 100
FtsLimit == 100

\* all orders of the elements of a set
RECURSIVE PermSeqs(_)
PermSeqs(S) ==
    IF S = {} THEN {<<>>}
    ELSE UNION {{<<x>> \o p : p \in PermSeqs(S \ {x})} : x \in S}

\* LIKE compares the ASCII letters without regard to case
ascii_lower(c) ==
    CASE c = "A" -> "a" [] c = "B" -> "b" [] c = "C" -> "c" [] c = "D" -> "d"
      [] c = "G" -> "g" [] c = "O" -> "o" [] OTHER -> c

\* SQL LIKE, token by token: % is any run of tokens, _ any one token
RECURSIVE like(_, _)
like(text, pattern) ==
    IF pattern = <<>> THEN text = <<>>
    ELSE IF Head(pattern) = "%"
    THEN like(text, Tail(pattern)) \/ (text # <<>> /\ like(Tail(text), pattern))
    ELSE /\ text # <<>>
         /\ (Head(pattern) = "_" \/ ascii_lower(Head(pattern)) = ascii_lower(Head(text)))
         /\ like(Tail(text), Tail(pattern))

\* format!("%{}%", s)
Contains(s) == <<"%">> \o s \o <<"%">>

HasFilter(q) ==
    q.author # None \/ q.lang # None \/ q.after # None \/ q.before # None
        \/ q.file_pattern # None

\* chunks c LEFT JOIN locations l ON c.content_hash = l.content_hash: the
\* locations joined to a chunk, one all-NULL location when it has none
JoinedLocations(c) ==
    LET ls == {locations[i] : i \in {j \in DOMAIN locations :
                                 locations[j].content_hash = c.content_hash}}
    IN  IF ls = {} THEN {None} ELSE {Some(l) : l \in ls}

\* the WHERE clause of the filter statement on one joined row; a comparison
\* with NULL is not true
FilterWhere(q, c, l) ==
    /\ q.author # None =>
          /\ l # None /\ l[1].author # None
          /\ (like(l[1].author[1], Contains(q.author[1]))
                \/ l[1].author[1] = q.author[1])
    /\ q.lang # None => c.language = q.lang[1]
    /\ q.after # None =>
          l # None /\ l[1].timestamp # None /\ l[1].timestamp[1] >= q.after[1]
    /\ q.before # None =>
          l # None /\ l[1].timestamp # None /\ l[1].timestamp[1] <= q.before[1]
    /\ q.file_pattern # None =>
          l # None /\ like(l[1].file_path, Contains(q.file_pattern[1]))

\* step 1: SELECT DISTINCT c.content_hash ... ; filter_hashes
filter_hashes(q) ==
    {c.content_hash : c \in {r \in chunks :
                               \E l \in JoinedLocations(r) : FilterWhere(q, r, l)}}

in_filter(q, hash) == ~HasFilter(q) \/ hash \in filter_hashes(q)

Dot(a, b) == LET n == IF Len(a) < Len(b) THEN Len(a) ELSE Len(b)
                 S[i \in 0..n] == IF i = 0 THEN 0 ELSE S[i - 1] + a[i] * b[i]
             IN  S[n]

\* Embedding::cosine_similarity as the pair (dot, norm_b squared): the
\* query's norm is common to all rows; 0.0 when a norm is zero or the
\* dimensions differ
cosine_key(qvec, row) ==
    IF Len(qvec) # row.dimensions \/ Dot(qvec, qvec) = 0
          \/ Dot(row.vector, row.vector) = 0
    THEN [dot |-> 0, nsq |-> 1]
    ELSE [dot |-> Dot(qvec, row.vector), nsq |-> Dot(row.vector, row.vector)]

\* a.dot / sqrt(a.nsq) > b.dot / sqrt(b.nsq)
similarity_gt(a, b) ==
    IF a.dot >= 0 /\ b.dot >= 0 THEN a.dot * a.dot * b.nsq > b.dot * b.dot * a.nsq
    ELSE IF a.dot >= 0 THEN TRUE
    ELSE IF b.dot >= 0 THEN FALSE
    ELSE a.dot * a.dot * b.nsq < b.dot * b.dot * a.nsq

\* slice::sort_by (stable) with b.1.partial_cmp(&a.1): x goes before the
\* first element it is strictly more similar than
RECURSIVE insert_sorted(_, _, _)
insert_sorted(sorted, x, qvec) ==
    IF sorted = <<>> THEN <<x>>
    ELSE IF similarity_gt(cosine_key(qvec, x), cosine_key(qvec, Head(sorted)))
    THEN <<x>> \o sorted
    ELSE <<Head(sorted)>> \o insert_sorted(Tail(sorted), x, qvec)

RECURSIVE sort_by_similarity(_, _, _)
sort_by_similarity(done, rest, qvec) ==
    IF rest = <<>> THEN done
    ELSE sort_by_similarity(insert_sorted(done, Head(rest), qvec), Tail(rest), qvec)

HashesOf(rows) == [i \in DOMAIN rows |-> rows[i].content_hash]

\* step 2: the embeddings in table order, those of the filter set, sorted
vector_sorted(q, qvec) ==
    LET InFilter(row) == in_filter(q, row.content_hash)
    IN  HashesOf(sort_by_similarity(<<>>, SelectSeq(embeddings, InFilter), qvec))

\* the unicode61 tokens of an FTS row: its symbol name and the bytes of its
\* content between newlines
FtsTokens(row) ==
    (IF row.symbol_name = None THEN {} ELSE {Join(row.symbol_name[1], "")})
        \cup {ToString(b) : b \in Range(row.content) \ {9}}

\* chunks_fts MATCH ?: every term of the query is a token of the row
fts_match(raw_query, row) == Range(raw_query) \subseteq FtsTokens(row)

\* rows of equal text have equal rank and come in rowid order
fts_rows_of(raw_query, hash) ==
    LET Hit(row) == row.content_hash = hash /\ fts_match(raw_query, row)
    IN  SelectSeq(chunks_fts, Hit)

\* the orders ORDER BY rank can give: bm25 is not computed, the distinct
\* matching texts may come in any order
fts_rank_orders(raw_query) ==
    PermSeqs({chunks_fts[i].content_hash :
                i \in {j \in DOMAIN chunks_fts : fts_match(raw_query, chunks_fts[j])}})

\* a statement that would join the matches to the embeddings
lexical_results_embedded(q, rank_order) ==
    LET all == Concat([i \in DOMAIN rank_order |->
                          HashesOf(fts_rows_of(q.raw_query, rank_order[i]))])
        Embedded(hash) == \E i \in DOMAIN embeddings :
                              embeddings[i].content_hash = hash
    IN  SelectSeq(all, Embedded)

\* step 3: the first FtsLimit matches in rank order, those of the filter set
lexical_results(q, rank_order) ==
    LET all == Concat([i \in DOMAIN rank_order |->
                          HashesOf(fts_rows_of(q.raw_query, rank_order[i]))])
        InFilter(hash) == in_filter(q, hash)
    IN  IF q.raw_query = <<>> THEN <<>>
        ELSE SelectSeq(SubSeq(all, 1, IF Len(all) < FtsLimit THEN Len(all) ELSE FtsLimit),
                       InFilter)

\* scores are kept in units of 1 / ScoreUnit, the resolution of an f32 near
\* 1/60; the first four ranks are exact
ScoreUnit == (k_rrf + 1) * (k_rrf + 2) * (k_rrf + 3) * (k_rrf + 4)

\* 1.0 / (k + (i + 1) as f32), i counted from 0: rank is i + 1
rrf_term(rank) == ScoreUnit \div (k_rrf + rank)

\* what one ranked list adds to the score of hash
list_score(list, hash) ==
    LET S[i \in 0..Len(list)] ==
            IF i = 0 THEN 0
            ELSE S[i - 1] + (IF list[i] = hash THEN rrf_term(i) ELSE 0)
    IN  S[Len(list)]

\* step 4: rrf_scores
rrf_score(vec, lex, hash) == list_score(vec, hash) + list_score(lex, hash)

\* into_iter() of the HashMap, then a stable sort by score: entries of equal
\* score in any order
final_orders(vec, lex) ==
    {o \in PermSeqs(Range(vec) \cup Range(lex)) :
        \A i \in 1..(Len(o) - 1) :
            rrf_score(vec, lex, o[i]) >= rrf_score(vec, lex, o[i + 1])}

\* final_results.truncate(query.limit)
truncate(s, n) == SubSeq(s, 1, IF Len(s) < n THEN Len(s) ELSE n)

\* QueryStore::query: the results it can return
query(q, qvec) ==
    {[ran        |-> TRUE,
      q          |-> q,
      vector     |-> vector_sorted(q, qvec),
      lexical    |-> lexical_results(q, rank_order),
      results    |-> [i \in DOMAIN truncate(final, q.limit) |->
                        [content_hash |-> final[i],
                         similarity   |-> rrf_score(vector_sorted(q, qvec),
                                             lexical_results(q, rank_order),
                                             final[i])]]] :
        <<rank_order, final>> \in
            UNION {{<<ro, f>> : f \in final_orders(vector_sorted(q, qvec),
                                                   lexical_results(q, ro))} :
                   ro \in fts_rank_orders(q.raw_query)}}

-----------------------------------------------------------------------------
(* storage/sqlite.rs: ModuleStore::get_unified_graph *)

\* ProjectType::from_str(ProjectType::as_str(..)): the project_type column read back
ProjectType_from_str(s) ==
    IF s \in {"workspace", "crate", "package", "npm_package", "go_module",
              "java_project", "terraform_module"}
    THEN s ELSE "directory"

\* get_all_modules / get_module: a row of table modules as a Module
ModuleOfRow(row) ==
    [row EXCEPT !.language = Language_from_str(@),
                !.project_type = ProjectType_from_str(@)]

\* REPLACE(m2.name, '-', '_')
replace_dash(name) ==
    [i \in DOMAIN name |-> IF name[i] = "-" THEN "_" ELSE name[i]]

\* s || '::%'
prefix_pattern(s) == s \o <<":", ":", "%">>

\* e.target_query = c.symbol_name; not true for a NULL symbol_name
symbol_equals(target_query, symbol_name) ==
    symbol_name # None /\ target_query = symbol_name[1]

\* e.target_query = c.symbol_name OR e.target_query LIKE c.symbol_name || '::%'
symbol_or_prefix(target_query, symbol_name) ==
    /\ symbol_name # None
    /\ (target_query = symbol_name[1]
          \/ like(target_query, prefix_pattern(symbol_name[1])))

\* the rows of edges JOIN chunks c1 ON e.source_hash = c1.content_hash
SourceRows(cs, es) ==
    {<<i, c1>> \in (DOMAIN es) \X cs : es[i].source_hash = c1.content_hash}

\* view module_edges, WHERE source_module = ?1: the joined rows per target
module_edges_rows(mods, cs, es, source_module, target_module) ==
    {<<r, c2>> \in SourceRows(cs, es) \X cs :
        /\ r[2].module_id = Some(source_module)
        /\ symbol_or_prefix(es[r[1]].target_query, c2.symbol_name)
        /\ c2.module_id = Some(target_module)
        /\ target_module \in ModuleIds(mods)
        /\ source_module # target_module}

\* WITH RECURSIVE crate_map(mod_id, crate_id, ..): the modules that are not
\* directories map to themselves, a directory to the crate of its parent
RECURSIVE crate_map_from(_, _)
crate_map_from(mods, cm) ==
    LET next == cm \cup
            {[mod_id |-> m.id, crate_id |-> p.crate_id] :
                <<m, p>> \in {<<m, p>> \in mods \X cm :
                                /\ m.project_type = "directory"
                                /\ m.parent_id = Some(p.mod_id)}}
    IN  IF next = cm THEN cm ELSE crate_map_from(mods, next)

\* a map without its recursive part
crate_map_base(mods) ==
    {[mod_id |-> m.id, crate_id |-> m.id] :
        m \in {x \in mods : x.project_type # "directory"}}

crate_map(mods) ==
    crate_map_from(mods, {[mod_id |-> m.id, crate_id |-> m.id] :
                            m \in {x \in mods : x.project_type # "directory"}})

\* the crates a chunk's module maps to (none for a NULL module_id)
crates_of(cm, module_id) ==
    IF module_id = None THEN {}
    ELSE {p.crate_id : p \in {x \in cm : x.mod_id = module_id[1]}}

\* 1. Direct symbol matching via chunks: the rows with target crate t
direct_rows(mods, cs, es, crate, t) ==
    {<<r, c2>> \in SourceRows(cs, es) \X cs :
        /\ crate \in crates_of(crate_map(mods), r[2].module_id)
        /\ symbol_equals(es[r[1]].target_query, c2.symbol_name)
        /\ t \in crates_of(crate_map(mods), c2.module_id)
        /\ t # crate}

\* 2. Symbol prefix matching via module names: the rows with target m2
prefix_rows(mods, cs, es, crate, m2) ==
    {r \in SourceRows(cs, es) :
        /\ crate \in crates_of(crate_map(mods), r[2].module_id)
        /\ m2.project_type # "directory"
        /\ m2.id # crate
        /\ LET tq == es[r[1]].target_query
           IN  /\ \/ like(tq, prefix_pattern(replace_dash(m2.name)))
                  \/ tq = replace_dash(m2.name)
                  \/ like(tq, prefix_pattern(m2.name))
                  \/ tq = m2.name
               /\ ~\E c3 \in cs : symbol_equals(tq, c3.symbol_name)}

\* COUNT(*) ... GROUP BY target_id for one target
dep_count(level, mods, cs, es, id, t) ==
    IF level = "crate"
    THEN Cardinality(direct_rows(mods, cs, es, id, t))
         + Cardinality(UNION {{<<r, m2>> : r \in prefix_rows(mods, cs, es, id, m2)} :
                              m2 \in {m \in mods : m.id = t}})
    ELSE Cardinality(module_edges_rows(mods, cs, es, id, t))

\* deps_raw of one module: (target_id, count) for the targets with rows
deps_raw(level, mods, cs, es, id) ==
    {[target_id |-> t, count |-> dep_count(level, mods, cs, es, id, t)] :
        t \in {x \in ModuleIds(mods) : dep_count(level, mods, cs, es, id, x) > 0}}

\* the crate_map of the edge statement: every module maps to itself and to
\* each module above it
RECURSIVE ancestors_or_self(_, _, _)
ancestors_or_self(mods, id, fuel) ==
    LET up == {m.parent_id[1] : m \in {x \in mods : x.id = id /\ x.parent_id # None}}
    IN  IF fuel = 0 \/ id \notin ModuleIds(mods) THEN {}
        ELSE {id} \cup UNION {ancestors_or_self(mods, p, fuel - 1) : p \in up}

above(mods, module_id) ==
    IF module_id = None THEN {}
    ELSE ancestors_or_self(mods, module_id[1], Cardinality(mods))

\* the kind read back from the edge_kind column
EdgeKind_of_column(s) ==
    CASE s \in {"calls", "Calls"} -> "calls"
      [] s \in {"imports", "Imports"} -> "imports"
      [] OTHER -> "references"

\* a row of the edge statement as a ModuleEdgeDetail
ModuleEdgeDetail(c1, e) ==
    [source_symbol |-> IF c1.symbol_name = None
                       THEN <<"u", "n", "k", "n", "o", "w", "n">>
                       ELSE c1.symbol_name[1],
     target_symbol |-> e.target_query,
     line_number   |-> e.line_number,
     kind          |-> EdgeKind_of_column(e.kind)]

\* the rows of the edge statement for (?1, ?2)
edge_rows(mods, cs, es, source_id, target_id) ==
    {<<r, c2>> \in SourceRows(cs, es) \X cs :
        /\ source_id \in above(mods, r[2].module_id)
        /\ symbol_or_prefix(es[r[1]].target_query, c2.symbol_name)
        /\ target_id \in above(mods, c2.module_id)}

\* e_list, as the bag of its entries
edge_details(mods, cs, es, source_id, target_id) ==
    LET rows == edge_rows(mods, cs, es, source_id, target_id)
        Detail(x) == ModuleEdgeDetail(x[1][2], es[x[1][1]])
    IN  {[detail |-> d, n |-> Cardinality({x \in rows : Detail(x) = d})] :
            d \in {Detail(x) : x \in rows}}

\* target_modules: all modules, without the directories at level crate
target_modules(level, mods) ==
    {ModuleOfRow(m) : m \in {x \in mods : level = "crate" =>
                                ProjectType_from_str(x.project_type) # "directory"}}

\* a dependencies entry
Dependency(include_edges, mods, cs, es, id, d) ==
    [target_id |-> d.target_id, count |-> d.count,
     edges |-> IF include_edges
               THEN Some(edge_details(mods, cs, es, id, d.target_id))
               ELSE None]

\* get_unified_graph(level, None, include_edges) over one state of the
\* tables: the (module, dependencies) entries
unified_graph(level, include_edges, mods, cs, es) ==
    {[module |-> m,
      deps   |-> {Dependency(include_edges, mods, cs, es, m.id, d) :
                    d \in deps_raw(level, mods, cs, es, m.id)}] :
        m \in target_modules(level, mods)}

-----------------------------------------------------------------------------
(* storage/utils.rs: render_tree_string, render_forest_string;             *)
(* codemate-cli/src/commands/graph.rs: run_tree.  The lookups and the one  *)
(* call of the recursive renderer; indent strings are left out, the depth  *)
(* of a line stands for its prefix.                                        *)

\* the characters of the symbol names, in byte order
CharOrder ==
    <<"(", ":", "A", "B", "C", "D", "G", "O", "a", "b", "c", "d", "e", "f", "g",
      "h", "k", "m", "p", "q", "r", "s", "w", "z">>

char_rank(c) == CHOOSE i \in DOMAIN CharOrder : CharOrder[i] = c

\* Ord for String: byte-wise lexicographic
RECURSIVE str_lt(_, _)
str_lt(a, b) ==
    IF b = <<>> THEN FALSE
    ELSE IF a = <<>> THEN TRUE
    ELSE IF Head(a) # Head(b) THEN char_rank(Head(a)) < char_rank(Head(b))
    ELSE str_lt(Tail(a), Tail(b))

\* all_deps.sort(); all_deps.dedup(): the distinct names in ascending order
sort_dedup(names) ==
    CHOOSE o \in PermSeqs(names) :
        \A i \in 1..(Len(o) - 1) : str_lt(o[i], o[i + 1])

\* SELECT ... FROM chunks WHERE symbol_name = ?1
find_by_symbol(symbol) == {c \in chunks : c.symbol_name = Some(symbol)}

\* SELECT ... FROM edges WHERE source_hash = ?1
get_outgoing_edges(hash) ==
    LET From(e) == e.source_hash = hash
    IN  SelectSeq(edges, From)

\* the targets of all edges of all chunks of the name, sorted, each once
all_deps(symbol) ==
    sort_dedup(UNION {{e.target_query : e \in Range(get_outgoing_edges(c.content_hash))} :
                         c \in find_by_symbol(symbol)})

\* SELECT DISTINCT symbol_name FROM chunks WHERE symbol_name IS NOT NULL AND
\* symbol_name NOT IN (SELECT target_query FROM edges)
get_roots ==
    {c.symbol_name[1] : c \in {r \in chunks : r.symbol_name # None}}
        \ {e.target_query : e \in Range(edges)}

\* COMMON_SYMBOLS, those that the indexed trees call
COMMON_SYMBOLS == {<<"O", "k">>}

\* a renderer for which every symbol would be a common one
is_common_symbol_any(symbol) == TRUE

\* symbol == s || symbol.starts_with(&format!("{}(", s))
is_common_symbol(symbol) ==
    \E c \in COMMON_SYMBOLS : symbol = c \/ starts_with(symbol, c \o <<"(">>)

\* a visited set that forgets
visited_insert_none(visited, symbol) == visited

\* visited.insert(symbol.to_string())
visited_insert(visited, symbol) == visited \cup {symbol}

\* the lines written: a node at a depth, and the cycle marker below a node
NodeLine(symbol, depth) == [line |-> "node", symbol |-> symbol, depth |-> depth]
CycleLine(symbol, depth) == [line |-> "cycle", symbol |-> symbol, depth |-> depth]

\* the recursive calls of the loop over all_deps, in order
child_calls(symbol, depth) ==
    LET deps == all_deps(symbol)
    IN  [i \in DOMAIN deps |-> [symbol |-> deps[i], depth |-> depth + 1]]

\* The state of a traversal: the calls still to be made (the first is the
\* next one; the calls of a loop are pending while an earlier one runs),
\* the visited set, the output, and a record of the names whose
\* dependencies were looked up and of the number of calls made.
\* utils.rs render_recursive: one call
render_recursive(rd) ==
    LET call == Head(rd.stack)
        rest == Tail(rd.stack)
        node == NodeLine(call.symbol, call.depth)
        made == [rd EXCEPT !.calls = @ + 1]
    IN  IF call.depth > rd.max_depth THEN [made EXCEPT !.stack = rest]
        ELSE IF call.symbol \in rd.visited
        THEN [made EXCEPT !.stack = rest,
                          !.output = @ \o <<node, CycleLine(call.symbol, call.depth)>>]
        ELSE [made EXCEPT !.stack = child_calls(call.symbol, call.depth) \o rest,
                          !.output = Append(@, node),
                          !.visited = visited_insert(@, call.symbol),
                          !.expanded = Append(@, call.symbol)]

\* graph.rs render_tree_recursive: one call
render_tree_recursive(rd) ==
    LET call == Head(rd.stack)
        rest == Tail(rd.stack)
        node == NodeLine(call.symbol, call.depth)
        made == [rd EXCEPT !.calls = @ + 1]
    IN  IF call.depth > rd.max_depth THEN [made EXCEPT !.stack = rest]
        ELSE IF call.symbol \in rd.visited /\ ~is_common_symbol(call.symbol)
        THEN [made EXCEPT !.stack = rest,
                          !.output = @ \o <<node, CycleLine(call.symbol, call.depth)>>]
        ELSE IF call.symbol \in rd.visited
        THEN [made EXCEPT !.stack = rest, !.output = Append(@, node)]
        ELSE IF find_by_symbol(call.symbol) = {}
        THEN [made EXCEPT !.stack = rest,
                          !.output = Append(@, node),
                          !.visited = visited_insert(@, call.symbol)]
        ELSE [made EXCEPT !.stack = child_calls(call.symbol, call.depth) \o rest,
                          !.output = Append(@, node),
                          !.visited = visited_insert(@, call.symbol),
                          !.expanded = Append(@, call.symbol)]

\* the calls at depth 0, one per target
root_calls(targets) == [i \in DOMAIN targets |-> [symbol |-> targets[i], depth |-> 0]]

\* run_tree with --all: a root is passed over when it has no edge and no chunk
has_edges(symbol) ==
    \E c \in find_by_symbol(symbol) : get_outgoing_edges(c.content_hash) # <<>>

skipped_root(symbol) == ~has_edges(symbol) /\ find_by_symbol(symbol) = {}

\* the targets of a request, in the orders the roots can be read in:
\* render_tree_string / render_forest_string, and run_tree
tree_targets(impl, symbol, all) ==
    LET Shown(t) == ~(impl = "cli" /\ all /\ skipped_root(t))
    IN  IF symbol = None \/ (impl = "cli" /\ all)
        THEN {SelectSeq(o, Shown) : o \in PermSeqs(get_roots)}
        ELSE IF impl = "cli" /\ find_by_symbol(symbol[1]) = {} THEN {<<>>}
        ELSE {<<symbol[1]>>}

-----------------------------------------------------------------------------
(* storage/utils.rs: find_module_cycles, dfs_find_module_cycles *)

\* get_module_dependencies(id): the rows of module_edges for the source,
\* ORDER BY edge_count DESC, rows of equal count in any order
get_module_dependencies(mods, cs, es, id) ==
    {o \in PermSeqs(deps_raw("module", mods, cs, es, id)) :
        \A i \in 1..(Len(o) - 1) : o[i].count >= o[i + 1].count}

\* the adjacency maps find_module_cycles can build: module id -> dep ids
Adjacencies(mods, cs, es) ==
    LET ids  == ModuleIds(mods)
        Ids(o) == [i \in DOMAIN o |-> o[i].target_id]
        Lists(id) == {Ids(o) : o \in get_module_dependencies(mods, cs, es, id)}
    IN  {adj \in [ids -> UNION {Lists(id) : id \in ids}] :
            \A id \in ids : adj[id] \in Lists(id)}

\* a search that takes every module for unvisited
not_visited_ever(visited, v) == TRUE

\* !visited.contains(v)
not_visited(visited, v) == v \notin visited

\* a search that leaves the finished modules on the stack map
on_stack_keep(on_stack, u) == on_stack

\* on_stack.remove(u)
on_stack_remove(on_stack, u) == {p \in on_stack : p[1] # u}

\* path[start_idx..].to_vec(), then push(v)
cycle_from(path, start_idx, v) == Append(SubSeq(path, start_idx + 1, Len(path)), v)

\* dfs_find_module_cycles(u, ..) on the state st of visited, on_stack (pairs
\* of a module and its index in path), path and cycles; dfs_neighbors is its
\* loop over the neighbors still to look at
RECURSIVE dfs_find_module_cycles(_, _, _)
RECURSIVE dfs_neighbors(_, _, _)
dfs_neighbors(nbrs, adj, st) ==
    IF nbrs = <<>> THEN st
    ELSE LET v    == Head(nbrs)
             hits == {p \in st.on_stack : p[1] = v}
             next == IF hits # {}
                     THEN [st EXCEPT !.cycles =
                              Append(@, cycle_from(st.path, (CHOOSE p \in hits : TRUE)[2], v))]
                     ELSE IF not_visited(st.visited, v)
                     THEN dfs_find_module_cycles(v, adj, st)
                     ELSE st
         IN  dfs_neighbors(Tail(nbrs), adj, next)

dfs_find_module_cycles(u, adj, st) ==
    LET entered == [st EXCEPT !.visited = @ \cup {u},
                              !.on_stack = {p \in @ : p[1] # u} \cup {<<u, Len(st.path)>>},
                              !.path = Append(@, u)]
        looked  == IF u \in DOMAIN adj THEN dfs_neighbors(adj[u], adj, entered)
                   ELSE entered
    IN  [looked EXCEPT !.on_stack = on_stack_remove(@, u),
                       !.path = SubSeq(@, 1, Len(@) - 1)]

\* for module_id in adj.keys(): the search from each key not yet visited
RECURSIVE dfs_keys(_, _, _)
dfs_keys(keys, adj, st) ==
    IF keys = <<>> THEN st
    ELSE dfs_keys(Tail(keys), adj,
                  IF not_visited(st.visited, Head(keys))
                  THEN dfs_find_module_cycles(Head(keys), adj, st)
                  ELSE st)

\* find_module_cycles: the lists of cycles it can return, with the adjacency
\* map each was found in; the keys of the HashMap come in any order
find_module_cycles(mods, cs, es) ==
    {[adj    |-> adj,
      cycles |-> dfs_keys(keys, adj, [visited |-> {}, on_stack |-> {},
                                      path |-> <<>>, cycles |-> <<>>]).cycles] :
        <<keys, adj>> \in PermSeqs(ModuleIds(mods)) \X Adjacencies(mods, cs, es)}

-----------------------------------------------------------------------------
(* The trees that are indexed *)

Dir(path, name, language, project_type) ==
    [path |-> path, name |-> name, language |-> language,
     project_type |-> project_type]

\* a syntax node starting at row: it ends on the row of its last byte
Node(kind, text, row, name, calls, uses) ==
    [kind |-> kind, text |-> text, start_row |-> row,
     end_row |-> row + CountNewlines(text), name |-> name,
     calls |-> calls, uses |-> uses]

SrcFile(path, ext, readable, blame, nodes) ==
    [path |-> path, ext |-> ext, readable |-> readable, blame |-> blame,
     nodes |-> nodes]

Repeat(b, n) == [i \in 1..n |-> b]

\* a function body of max_lines + 1 lines
BigText == Repeat(9, max_lines) \o <<8>>

\* a workspace with a crate below it; the function f has the same text in
\* x.rs and in a/y.rs
WorldDup ==
    [dirs  |-> <<Dir(<<>>, <<"w", "s">>, "rust", "workspace"),
                 Dir(<<"a">>, <<"a">>, "rust", "crate")>>,
     files |-> <<SrcFile(<<"x.rs">>, "rs", TRUE, Some([author |-> <<"ann">>, timestamp |-> 5]),
                     <<Node("function_item", <<1>>, 0, Some(<<"f">>),
                            <<[target |-> <<"g">>, row |-> 0]>>, <<>>)>>),
                 SrcFile(<<"a", "y.rs">>, "rs", TRUE, Some([author |-> <<"bob">>, timestamp |-> 6]),
                     <<Node("struct_item", <<2, 9, 2>>, 0, Some(<<"g">>), <<>>, <<>>),
                       Node("function_item", <<1>>, 2, Some(<<"f">>),
                            <<[target |-> <<"g">>, row |-> 2]>>, <<>>)>>)>>]

\* a tree with a file that cannot be read, a chunk the embedder fails on, and
\* a function too long to be a chunk
WorldErr ==
    [dirs  |-> <<Dir(<<>>, <<"r", "o", "o", "t">>, "unknown", "directory")>>,
     files |-> <<SrcFile(<<"bad.rs">>, "rs", FALSE, None, <<>>),
                 SrcFile(<<"e.rs">>, "rs", TRUE, None,
                     <<Node("function_item", <<5>>, 0, Some(<<"e">>), <<>>, <<>>),
                       Node("function_item", BigText, 1, Some(<<"b">>), <<>>, <<>>),
                       Node("enum_item", <<3, 5>>, max_lines + 2, Some(<<"k">>), <<>>, <<>>)>>)>>]

\* a Java file (no extractor) and a Python file that starts with an import
WorldPy ==
    [dirs  |-> <<Dir(<<>>, <<"r", "o", "o", "t">>, "python", "package")>>,
     files |-> <<SrcFile(<<"J.java">>, "java", TRUE, None,
                     <<Node("program", <<6>>, 0, None, <<>>, <<>>)>>),
                 SrcFile(<<"p.py">>, "py", TRUE, None,
                     <<Node("import_statement", <<7>>, 0, None, <<>>,
                            <<[text |-> <<"m">>, row |-> 0]>>),
                       Node("function_definition", <<4>>, 1, Some(<<"h">>),
                            <<[target |-> <<"f">>, row |-> 1]>>, <<>>)>>)>>]

\* one file each, for two index requests: f alone, and f below a struct in
\* a crate directory
WorldX ==
    [dirs  |-> <<Dir(<<>>, <<"w", "s">>, "rust", "workspace")>>,
     files |-> <<WorldDup.files[1]>>]

WorldY ==
    [dirs  |-> WorldDup.dirs,
     files |-> <<WorldDup.files[2]>>]

\* two functions that call each other
WorldCyc ==
    [dirs  |-> <<Dir(<<>>, <<"r", "o", "o", "t">>, "rust", "crate")>>,
     files |-> <<SrcFile(<<"c.rs">>, "rs", TRUE, None,
                     <<Node("function_item", <<1>>, 0, Some(<<"A">>),
                            <<[target |-> <<"B">>, row |-> 0]>>, <<>>),
                       Node("function_item", <<2>>, 1, Some(<<"B">>),
                            <<[target |-> <<"A">>, row |-> 1]>>, <<>>)>>)>>]

\* p calls q and Ok, q calls Ok, s calls itself
WorldCommon ==
    [dirs  |-> <<Dir(<<>>, <<"r", "o", "o", "t">>, "unknown", "directory")>>,
     files |-> <<SrcFile(<<"d.rs">>, "rs", TRUE, None,
                     <<Node("function_item", <<1>>, 0, Some(<<"p">>),
                            <<[target |-> <<"q">>, row |-> 0],
                              [target |-> <<"O", "k">>, row |-> 0]>>, <<>>),
                       Node("function_item", <<2>>, 1, Some(<<"q">>),
                            <<[target |-> <<"O", "k">>, row |-> 1]>>, <<>>),
                       Node("function_item", <<3>>, 2, Some(<<"s">>),
                            <<[target |-> <<"s">>, row |-> 2]>>, <<>>)>>)>>]

\* three crates whose functions call each other in a ring
WorldRing ==
    [dirs  |-> <<Dir(<<>>, <<"w", "s">>, "rust", "workspace"),
                 Dir(<<"a">>, <<"a">>, "rust", "crate"),
                 Dir(<<"b">>, <<"b">>, "rust", "crate"),
                 Dir(<<"c">>, <<"c">>, "rust", "crate")>>,
     files |-> <<SrcFile(<<"a", "x.rs">>, "rs", TRUE, None,
                     <<Node("function_item", <<1>>, 0, Some(<<"f", "a">>),
                            <<[target |-> <<"f", "b">>, row |-> 0]>>, <<>>)>>),
                 SrcFile(<<"b", "x.rs">>, "rs", TRUE, None,
                     <<Node("function_item", <<2>>, 0, Some(<<"f", "b">>),
                            <<[target |-> <<"f", "c">>, row |-> 0]>>, <<>>)>>),
                 SrcFile(<<"c", "x.rs">>, "rs", TRUE, None,
                     <<Node("function_item", <<3>>, 0, Some(<<"f", "c">>),
                            <<[target |-> <<"f", "a">>, row |-> 0]>>, <<>>)>>)>>]

\* two crates that call each other: the name g has two chunks in crate b,
\* b::z and G::z are no chunk's name, and b has a plain directory d below it
WorldMesh ==
    [dirs  |-> <<Dir(<<>>, <<"w", "s">>, "rust", "workspace"),
                 Dir(<<"a">>, <<"a">>, "rust", "crate"),
                 Dir(<<"b">>, <<"b">>, "rust", "crate"),
                 Dir(<<"b", "d">>, <<"d">>, "unknown", "directory")>>,
     files |-> <<SrcFile(<<"a", "x.rs">>, "rs", TRUE, None,
                     <<Node("function_item", <<1>>, 0, Some(<<"f", "a">>),
                            <<[target |-> <<"f", "b">>, row |-> 0],
                              [target |-> <<"g">>, row |-> 0],
                              [target |-> <<"b", ":", ":", "z">>, row |-> 0]>>, <<>>)>>),
                 SrcFile(<<"b", "x.rs">>, "rs", TRUE, None,
                     <<Node("function_item", <<2>>, 0, Some(<<"f", "b">>),
                            <<[target |-> <<"f", "a">>, row |-> 0]>>, <<>>),
                       Node("function_item", <<3>>, 1, Some(<<"g">>), <<>>, <<>>),
                       Node("struct_item", <<4, 9, 4>>, 2, Some(<<"g">>), <<>>, <<>>)>>),
                 SrcFile(<<"b", "d", "y.rs">>, "rs", TRUE, None,
                     <<Node("function_item", <<6>>, 0, Some(<<"f", "d">>),
                            <<[target |-> <<"f", "a">>, row |-> 0],
                              [target |-> <<"G", ":", ":", "z">>, row |-> 0]>>, <<>>)>>)>>]

\* a crate with a sub-directory named root
WorldRoot ==
    [dirs  |-> <<Dir(<<>>, <<"w", "s">>, "rust", "crate"),
                 Dir(<<"root">>, <<"r", "o", "o", "t">>, "unknown", "directory")>>,
     files |-> <<SrcFile(<<"x.rs">>, "rs", TRUE, None,
                     <<Node("function_item", <<7>>, 0, Some(<<"h">>), <<>>, <<>>)>>),
                 SrcFile(<<"root", "x.rs">>, "rs", TRUE, None,
                     <<Node("function_item", <<8>>, 0, Some(<<"m">>), <<>>, <<>>)>>)>>]

\* a workspace whose own code calls into its one crate
WorldPair ==
    [dirs  |-> <<Dir(<<>>, <<"w", "s">>, "rust", "workspace"),
                 Dir(<<"a">>, <<"a">>, "rust", "crate")>>,
     files |-> <<SrcFile(<<"x.rs">>, "rs", TRUE, None,
                     <<Node("function_item", <<1>>, 0, Some(<<"h">>),
                            <<[target |-> <<"k">>, row |-> 0]>>, <<>>)>>),
                 SrcFile(<<"a", "y.rs">>, "rs", TRUE, None,
                     <<Node("function_item", <<2>>, 0, Some(<<"k">>), <<>>, <<>>)>>)>>]

\* a diamond without a cycle: A calls B and C, both call D; e calls D too
WorldDiamond ==
    [dirs  |-> <<Dir(<<>>, <<"r", "o", "o", "t">>, "rust", "crate")>>,
     files |-> <<SrcFile(<<"d.rs">>, "rs", TRUE, None,
                     <<Node("function_item", <<1>>, 0, Some(<<"A">>),
                            <<[target |-> <<"B">>, row |-> 0],
                              [target |-> <<"C">>, row |-> 0]>>, <<>>),
                       Node("function_item", <<2>>, 1, Some(<<"B">>),
                            <<[target |-> <<"D">>, row |-> 1]>>, <<>>),
                       Node("function_item", <<3>>, 2, Some(<<"C">>),
                            <<[target |-> <<"D">>, row |-> 2]>>, <<>>),
                       Node("function_item", <<4>>, 3, Some(<<"D">>), <<>>, <<>>),
                       Node("function_item", <<6>>, 4, Some(<<"e">>),
                            <<[target |-> <<"D">>, row |-> 4]>>, <<>>)>>)>>]

Worlds ==
    <<WorldDup, WorldErr, WorldPy, WorldX, WorldY, WorldCyc, WorldCommon, WorldRing,
      WorldMesh, WorldRoot, WorldPair, WorldDiamond>>

\* the trees given to the command line, and to the server's index requests
CliWorlds == {1, 2, 3}
SrvWorlds == {4, 5}

\* the trees that are indexed before a tree or a module graph is asked for
RequestWorlds == {6, 7, 8, 9, 10, 11, 12}

\* texts on which the embedding model returns an error
EmbedFails == {<<5>>}

\* Embedder::embed on the embedding text of a chunk: a vector per text
embed(chunk) ==
    IF chunk.content \in EmbedFails THEN [ok |-> FALSE]
    ELSE [ok |-> TRUE,
          embedding |-> [model_id   |-> "m",
                         vector     |-> CASE chunk.content[1] = 1 -> <<1, 0>>
                                          [] chunk.content[1] = 2 -> <<0, 1>>
                                          [] OTHER -> <<1, 1>>,
                         dimensions |-> 2]]

\* repo.head_commit().hash
HeadHash == "c0"

-----------------------------------------------------------------------------
(* codemate-cli/src/commands/index.rs, codemate-server/src/service.rs: *)
(* one indexing run, a step per store call                               *)

TaskIds == {1, 2}

IdleTask ==
    [pc |-> "idle", mode |-> "none", w |-> 0, order |-> <<>>,
     mi |-> 0, fi |-> 0, ci |-> 0,
     total_files |-> 0, total_chunks |-> 0, total_locations |-> 0,
     errors |-> 0,
     parse_failures |-> 0, embed_failures |-> 0]

\* the locals of a run after detector.detect_modules()
StartedTask(mode, w, order) ==
    [IdleTask EXCEPT !.pc = "modules", !.mode = mode, !.w = w, !.order = order]

CurFiles(t) == Worlds[tasks[t].w].files
CurFile(t) == CurFiles(t)[tasks[t].fi]
CurParsed(t) == extract_file(CurFile(t))
CurModuleId(t) == get_module_id_for_file(tasks[t].order, CurFile(t).path)

\* the chunk of the loop body, stamped with the file's module
CurChunk(t) ==
    LET c == CurParsed(t).chunks[tasks[t].ci]
        mid == CurModuleId(t)
    IN  IF mid # None THEN with_module_id(c, mid[1]) ELSE c

\* the location of the loop body; git mode adds the commit and the blame
CurLocation(t) ==
    LET c == CurChunk(t)
        base == ChunkLocation_new(c.content_hash, to_string_lossy(CurFile(t).path),
                                  0, c.byte_size, c.line_start, c.line_end)
        committed == with_commit(base, HeadHash)
        info == CurFile(t).blame
    IN  IF tasks[t].mode # "git" THEN base
        ELSE IF info = None THEN committed
        ELSE with_timestamp(with_author(committed, info[1].author),
                            info[1].timestamp)

SetTask(t, rec) == tasks' = [tasks EXCEPT ![t] = rec]

\* for module in &modules { put_module(module) }: the CLI leaves on an error,
\* the server ignores it
PutModuleStep(t) ==
    LET T == tasks[t]
        m == T.order[T.mi + 1]
    IN  /\ T.pc = "modules"
        /\ put_module(m)
        /\ SetTask(t,
              IF ~put_module_ok(m) /\ T.mode # "server"
              THEN [T EXCEPT !.pc = "aborted"]
              ELSE [T EXCEPT !.mi = @ + 1,
                             !.fi = 1,
                             !.pc = IF T.mi + 1 = Len(T.order)
                                    THEN "walk" ELSE "modules"])

\* the head of the walk loop: next file, extract_file, parse errors
WalkStep(t) ==
    LET T == tasks[t]
        counted == IF T.mode = "server" THEN T
                   ELSE [T EXCEPT !.total_files = @ + 1]
    IN  /\ T.pc = "walk"
        /\ UNCHANGED storeVars
        /\ SetTask(t,
              IF T.fi > Len(CurFiles(t)) THEN [T EXCEPT !.pc = "done"]
              ELSE IF ~CurParsed(t).ok
              THEN [counted EXCEPT !.fi = @ + 1,
                                   !.parse_failures = @ + 1,
                                   !.errors = IF T.mode = "server" THEN @ ELSE @ + 1]
              ELSE [counted EXCEPT !.ci = 1,
                                   !.pc = IF CurParsed(t).chunks = <<>>
                                          THEN "edges" ELSE "chunk_put"])

\* ChunkStore::put(&storage, &chunk)?
ChunkPutStep(t) ==
    LET T == tasks[t]
    IN  /\ T.pc = "chunk_put"
        /\ ChunkStore_put(CurChunk(t))
        /\ SetTask(t, [T EXCEPT !.pc = IF ChunkStore_put_ok(CurChunk(t))
                                        THEN "chunk_embed" ELSE "aborted"])

\* embedder.embed(..): Ok stores the embedding, Err is logged or dropped
ChunkEmbedStep(t) ==
    LET T == tasks[t]
        e == embed(CurChunk(t))
    IN  /\ T.pc = "chunk_embed"
        /\ IF e.ok THEN VectorStore_put(CurChunk(t).content_hash, e.embedding)
           ELSE UNCHANGED storeVars
        /\ SetTask(t, [T EXCEPT !.pc = "chunk_loc",
                                !.embed_failures = IF e.ok THEN @ ELSE @ + 1])

\* put_location(&storage, &location)?; total_chunks += 1
ChunkLocStep(t) ==
    LET T == tasks[t]
    IN  /\ T.pc = "chunk_loc"
        /\ put_location(CurLocation(t))
        /\ SetTask(t, [T EXCEPT !.total_chunks = @ + 1,
                                !.total_locations = IF T.mode = "git" THEN @ + 1 ELSE @,
                                !.ci = @ + 1,
                                !.pc = IF T.ci = Len(CurParsed(t).chunks)
                                       THEN "edges" ELSE "chunk_put"])

\* if !edges.is_empty() { add_edges(&storage, &edges)? }
EdgesStep(t) ==
    LET T == tasks[t]
        batch == CurParsed(t).edges
    IN  /\ T.pc = "edges"
        /\ IF batch = <<>> THEN UNCHANGED storeVars ELSE add_edges(batch)
        /\ SetTask(t,
              IF batch # <<>> /\ ~add_edges_ok(batch)
              THEN [T EXCEPT !.pc = "aborted"]
              ELSE [T EXCEPT !.pc = "walk", !.fi = @ + 1,
                             !.total_files = IF T.mode = "server" THEN @ + 1 ELSE @])

-----------------------------------------------------------------------------
(* Store-level specification: any caller, any order of the write operations *)

\* chunks a caller may put: the same content at two sites, an HCL resource,
\* and a chunk stamped with module "a"
ApiChunks ==
    {with_line_range(Chunk_new(<<1>>, "rust", "Function", Some(<<"f">>)), 1, 1),
     with_module_id(
         with_line_range(Chunk_new(<<1>>, "rust", "Function", Some(<<"f">>)), 3, 3),
         "root"),
     Chunk_new(<<2>>, "hcl", "Resource", Some(<<"g">>)),
     with_module_id(Chunk_new(<<3>>, "python", "Function", Some(<<"h">>)), "a")}

\* edges a caller may add: from the chunks above and from a hash never put
ApiEdges ==
    {Edge_new(from_content(<<1>>), <<"g">>, "calls", 1),
     Edge_new(from_content(<<3>>), <<"f">>, "calls", 2),
     Edge_new(from_content(<<7>>), <<"f">>, "imports", 1)}

ApiBatches ==
    {<<e>> : e \in ApiEdges} \cup {<<e1, e2>> : e1 \in ApiEdges, e2 \in ApiEdges}

ApiLocations ==
    {ChunkLocation_new(from_content(<<1>>), <<"x.rs">>, 0, 1, 1, 1),
     with_commit(ChunkLocation_new(from_content(<<1>>), <<"x.rs">>, 0, 1, 1, 1), "c0")}

ApiEmbeddings ==
    {[model_id |-> "m", vector |-> <<1, 0>>, dimensions |-> 2]}

ApiModules ==
    {[id |-> "root", name |-> <<"r">>, path |-> <<>>, language |-> "rust",
      project_type |-> "workspace", parent_id |-> None],
     [id |-> "a", name |-> <<"a">>, path |-> <<"a">>, language |-> "python",
      project_type |-> "package", parent_id |-> Some("root")]}

NoRet == [op |-> "none", ok |-> TRUE, batch |-> <<>>]

Called(op, ok, batch) ==
    /\ hist.calls < MaxCalls
    /\ ret' = [op |-> op, ok |-> ok, batch |-> batch]
    /\ UNCHANGED pipeVars

ApiPutChunk ==
    \E c \in ApiChunks :
        /\ Called("put", ChunkStore_put_ok(c), <<c>>)
        /\ ChunkStore_put(c)
        /\ hist' = [calls |-> hist.calls + 1,
                    puts  |-> IF ChunkStore_put_ok(c)
                              THEN hist.puts \cup {c.content_hash}
                              ELSE hist.puts]

ApiPutEmbedding ==
    \E e \in ApiEmbeddings :
        /\ Called("put_embedding", TRUE, <<>>)
        /\ VectorStore_put(from_content(<<1>>), e)
        /\ hist' = [hist EXCEPT !.calls = @ + 1]

ApiPutLocation ==
    \E l \in ApiLocations :
        /\ Called("put_location", TRUE, <<>>)
        /\ put_location(l)
        /\ hist' = [hist EXCEPT !.calls = @ + 1]

ApiAddEdge ==
    \E e \in ApiEdges :
        /\ Called("add_edge", add_edge_ok(e), <<e>>)
        /\ add_edge(e)
        /\ hist' = [hist EXCEPT !.calls = @ + 1]

ApiAddEdges ==
    \E b \in ApiBatches :
        /\ Called("add_edges", add_edges_ok(b), b)
        /\ add_edges(b)
        /\ hist' = [hist EXCEPT !.calls = @ + 1]

ApiPutModule ==
    \E m \in ApiModules :
        /\ Called("put_module", put_module_ok(m), <<>>)
        /\ put_module(m)
        /\ hist' = [hist EXCEPT !.calls = @ + 1]

vars == <<modules, chunks, chunks_fts, embeddings, locations, edges, ret, hist,
          tasks, runs, qres, reader>>

NoRuns == [started |-> 0, w |-> 0, mode |-> "none", prev_ok |-> FALSE,
           before |-> <<>>]
\* SearchQuery::default()
SearchQuery_default ==
    [raw_query |-> <<>>, author |-> None, lang |-> None, after |-> None,
     before |-> None, file_pattern |-> None, limit |-> 0]

NoQuery == [ran |-> FALSE, q |-> SearchQuery_default, vector |-> <<>>,
            lexical |-> <<>>, results |-> <<>>]
IdleReader == [pc |-> "idle"]

Init ==
    /\ StoreInit
    /\ ret = NoRet
    /\ hist = [calls |-> 0, puts |-> {}]
    /\ tasks = [t \in TaskIds |-> IdleTask]
    /\ runs = NoRuns
    /\ qres = NoQuery
    /\ reader = IdleReader

Next ==
    \/ ApiPutChunk
    \/ ApiPutEmbedding
    \/ ApiPutLocation
    \/ ApiAddEdge
    \/ ApiAddEdges
    \/ ApiPutModule

Spec == Init /\ [][Next]_vars

-----------------------------------------------------------------------------
(* Claims settled against the store-level specification *)

\* C2: after any sequence of ChunkStore::put calls, count() is the number of
\* distinct content hashes that were put; a put of a stored hash adds no entry
C2_CountIsDistinctHashes == count = Cardinality(hist.puts)

\* C2 witness: a put has just succeeded for a hash that was stored before
\* (chunks_fts, which gains a row per put, is longer than the chunk table)
C2_Witness_RepeatedPut ==
    /\ ret.op = "put" /\ ret.ok
    /\ Len(chunks_fts) > count
    /\ count >= 1

\* C5: every stored edge has a stored chunk whose content_hash is the edge's
\* source_hash, whatever add_edge / add_edges / put calls were made
C5_EdgeSourceStored ==
    \A i \in DOMAIN edges : edges[i].source_hash \in ChunkHashes(chunks)

\* C5 witness: edges are stored, their source chunk has been put again since,
\* and an insert of an edge without a source chunk has just been refused
C5_Witness_RefusedOrphan ==
    /\ ret.op \in {"add_edge", "add_edges"} /\ ~ret.ok
    /\ edges # <<>>
    /\ Len(chunks_fts) > count

\* C9: an add_edges call that fails leaves the edge table as it was; one that
\* succeeds appends every edge of the batch
C9_BatchAtomic ==
    [][(hist'.calls = hist.calls + 1 /\ ret'.op = "add_edges")
        => IF ret'.ok
           THEN edges' = edges \o ret'.batch
           ELSE edges' = edges]_vars

\* C9 witness: a batch has just failed on its second edge after its first
\* edge was insertable
C9_Witness_FailedAfterFirst ==
    /\ ret.op = "add_edges" /\ ~ret.ok
    /\ Len(ret.batch) = 2
    /\ fk_edge_source(chunks, ret.batch[1])
    /\ ~fk_edge_source(chunks, ret.batch[2])

-----------------------------------------------------------------------------
(* The command line: `codemate index [--git]` run over a tree, then again *)

CliModes == {"simple", "git"}

\* run(path, database, git_mode, _): a run starts when none is under way; a
\* later run gets the same tree and mode, and a detector of its own
CliStart ==
    /\ tasks[1].pc \in {"idle", "done", "aborted"}
    /\ runs.started < MaxRuns
    /\ \E w \in CliWorlds, mode \in CliModes :
         \E order \in IterationOrders(detect_modules(Worlds[w].dirs)) :
            /\ runs.started > 0 => (w = runs.w /\ mode = runs.mode)
            /\ SetTask(1, StartedTask(mode, w, order))
            /\ qres' = NoQuery
            /\ runs' = [started |-> runs.started + 1, w |-> w, mode |-> mode,
                        prev_ok |-> tasks[1].pc = "done",
                        before  |-> [chunks |-> chunks,
                                     embeddings |-> embeddings,
                                     locations |-> locations]]
    /\ UNCHANGED <<storeVars, ret, hist, reader>>

CliFrame == UNCHANGED <<ret, hist, runs, qres, reader>>

\* queries of `codemate search`: text only with limit 1, with a language,
\* with a path, an author alone, a time window
Queries ==
    {[SearchQuery_default EXCEPT !.raw_query = <<"5">>, !.limit = 1],
     [SearchQuery_default EXCEPT !.raw_query = <<"5">>, !.lang = Some("rust"),
                                 !.limit = 10],
     [SearchQuery_default EXCEPT !.raw_query = <<"e">>,
                                 !.file_pattern = Some(<<"e.rs">>), !.limit = 10],
     [SearchQuery_default EXCEPT !.author = Some(<<"ann">>), !.limit = 10],
     [SearchQuery_default EXCEPT !.raw_query = <<"f">>, !.after = Some(5),
                                 !.before = Some(5), !.limit = 10]}

\* embeddings of the query text
QueryVectors == {<<1, 0>>, <<1, 1>>}

\* `codemate search`: run between index runs, over the store as it is
CliSearch ==
    /\ tasks[1].pc \in {"done", "aborted"}
    /\ \E q \in Queries, qvec \in QueryVectors : qres' \in query(q, qvec)
    /\ UNCHANGED <<storeVars, ret, hist, tasks, runs, reader>>

NextIndex ==
    \/ CliStart
    \/ CliSearch
    \/ PutModuleStep(1) /\ CliFrame
    \/ WalkStep(1) /\ CliFrame
    \/ ChunkPutStep(1) /\ CliFrame
    \/ ChunkEmbedStep(1) /\ CliFrame
    \/ ChunkLocStep(1) /\ CliFrame
    \/ EdgesStep(1) /\ CliFrame

SpecIndex == Init /\ [][NextIndex]_vars

-----------------------------------------------------------------------------
(* Claims settled against the command-line specification *)

\* C1: a second run of the index command over the unchanged tree, after a
\* first run that completed, leaves the chunk rows, the embedding rows and
\* the location rows as the first run left them (no location row is added
\* for a stored (content_hash, file_path, commit_hash), NULL commit included)
C1_SecondRunChangesNothing ==
    (runs.started >= 2 /\ runs.prev_ok /\ tasks[1].pc = "done")
        => /\ chunks = runs.before.chunks
           /\ SeqToBag(embeddings) = SeqToBag(runs.before.embeddings)
           /\ SeqToBag(locations) = SeqToBag(runs.before.locations)

\* C3: no step of an index run changes or removes a stored chunk row: every
\* row of table chunks is in the table, attribute for attribute, after the step
C3_StoredRowNeverChanges == [][\A r \in chunks : r \in chunks']_vars

\* C4: every row of table chunks written by a run has content_hash equal to
\* the digest of its content, byte_size equal to the content's length and
\* line_start <= line_end, module stamp or not
C4_StoredChunkWellFormed ==
    \A r \in chunks :
        /\ r.content_hash = from_content(r.content)
        /\ r.byte_size = Len(r.content)
        /\ r.line_start <= r.line_end

\* C4 witness: a run has stored a chunk of several lines stamped with the
\* module of its file
C4_Witness_StampedStored ==
    \E r \in chunks : r.module_id = Some("a") /\ r.line_start < r.line_end

\* C7: when a run ends, its error count is the number of files the parser
\* failed on plus the number of chunks the embedder failed on
C7_EveryErrorCounted ==
    tasks[1].pc = "done"
        => tasks[1].errors = tasks[1].parse_failures + tasks[1].embed_failures

\* the stored chunks that have no embedding row
Unembedded ==
    {r \in chunks : \A i \in DOMAIN embeddings :
                        embeddings[i].content_hash # r.content_hash}

\* the query text is not empty and an FTS row of the chunk matches it
LexicallyMatches(q, hash) ==
    /\ q.raw_query # <<>>
    /\ \E i \in DOMAIN chunks_fts :
          chunks_fts[i].content_hash = hash /\ fts_match(q.raw_query, chunks_fts[i])

ResultHashes == {qres.results[i].content_hash : i \in DOMAIN qres.results}

\* C8 as stated: a chunk the embedder failed on is stored with its location
\* and without embedding, is not in the vector list of a query, and is in
\* the results whenever it matches the text and lies in the filter set
C8_UnembeddedAlwaysReturned ==
    /\ tasks[1].pc = "done" =>
          \A r \in chunks : r.content \in EmbedFails =>
              /\ r \in Unembedded
              /\ \E i \in DOMAIN locations : locations[i].content_hash = r.content_hash
    /\ qres.ran =>
          \A r \in Unembedded :
              /\ r.content_hash \notin Range(qres.vector)
              /\ (LexicallyMatches(qres.q, r.content_hash)
                    /\ in_filter(qres.q, r.content_hash))
                  => r.content_hash \in ResultHashes

\* C8 amended: ... and is in the results whenever it matches the text and
\* lies in the filter set, unless the results are cut at q.limit entries
\* all of which score at least as high
C8_UnembeddedReturnedWithinLimit ==
    /\ tasks[1].pc = "done" =>
          \A r \in chunks : r.content \in EmbedFails =>
              /\ r \in Unembedded
              /\ \E i \in DOMAIN locations : locations[i].content_hash = r.content_hash
    /\ qres.ran =>
          \A r \in Unembedded :
              /\ r.content_hash \notin Range(qres.vector)
              /\ (LexicallyMatches(qres.q, r.content_hash)
                    /\ in_filter(qres.q, r.content_hash)
                    /\ Len(chunks_fts) <= FtsLimit)
                  => \/ r.content_hash \in ResultHashes
                     \/ /\ Len(qres.results) = qres.q.limit
                        /\ \A i \in DOMAIN qres.results :
                              qres.results[i].similarity
                                 >= rrf_score(qres.vector, qres.lexical, r.content_hash)

\* C8 witness: a filtered query has returned a chunk the embedder failed on,
\* beside a chunk that has an embedding
C8_Witness_ReturnedLexically ==
    /\ qres.ran /\ HasFilter(qres.q)
    /\ \E r \in Unembedded : r.content \in EmbedFails
                               /\ r.content_hash \in ResultHashes
    /\ qres.vector # <<>>
    /\ Len(qres.results) = 2

\* the locations of a chunk that can be called its most recent: the row
\* inserted last, and the rows of the greatest timestamp; None when the
\* chunk has no location
MostRecentLocations(hash) ==
    LET idx   == {i \in DOMAIN locations : locations[i].content_hash = hash}
        last  == {i \in idx : \A j \in idx : j <= i}
        timed == {i \in idx : locations[i].timestamp # None}
        late  == {i \in timed : \A j \in timed :
                     locations[j].timestamp[1] <= locations[i].timestamp[1]}
    IN  IF idx = {} THEN {None} ELSE {Some(locations[i]) : i \in last \cup late}

\* C11: when a filter is set, every returned chunk has the asked language
\* and a most recent location that satisfies all the set filters together
C11_ResultsInCandidateSet ==
    (qres.ran /\ HasFilter(qres.q)) =>
        \A h \in ResultHashes :
            \E c \in chunks :
                /\ c.content_hash = h
                /\ \E l \in MostRecentLocations(h) : FilterWhere(qres.q, c, l)

\* the 1-indexed positions of hash in a ranked list
Positions(list, hash) == {i \in DOMAIN list : list[i] = hash}

\* 1 / (60 + r) for the position r of hash in the list, 0 when it is absent
PositionTerm(list, hash) ==
    IF Positions(list, hash) = {} THEN 0
    ELSE ScoreUnit \div (60 + CHOOSE r \in Positions(list, hash) : TRUE)

\* C12: every returned candidate is at one position at most of the vector
\* list and of the lexical list, its score is the sum of 1 / (60 + position)
\* over the lists it is in, and no score is above 2/61
C12_FusedScoreIsRrf ==
    qres.ran =>
        \A i \in DOMAIN qres.results :
            LET h == qres.results[i].content_hash
                s == qres.results[i].similarity
            IN  /\ Cardinality(Positions(qres.vector, h)) <= 1
                /\ Cardinality(Positions(qres.lexical, h)) <= 1
                /\ s = PositionTerm(qres.vector, h) + PositionTerm(qres.lexical, h)
                /\ s <= 2 * (ScoreUnit \div 61)

\* C13: the results are in descending order of score, entries of equal
\* score in ascending order of content hash, and at most q.limit of them
C13_OrderedByScoreThenHash ==
    qres.ran =>
        /\ Len(qres.results) <= qres.q.limit
        /\ \A i \in 1..(Len(qres.results) - 1) :
              LET a == qres.results[i]
                  b == qres.results[i + 1]
              IN  \/ a.similarity > b.similarity
                  \/ a.similarity = b.similarity /\ a.content_hash < b.content_hash

-----------------------------------------------------------------------------
(* codemate-server/src/service.rs: run_index as a function of the store it *)
(* starts from, when no other task runs between its calls                  *)

StoreNow ==
    [modules |-> modules, chunks |-> chunks, chunks_fts |-> chunks_fts,
     embeddings |-> embeddings, locations |-> locations, edges |-> edges]

EmptyStore ==
    [modules |-> {}, chunks |-> {}, chunks_fts |-> <<>>, embeddings |-> <<>>,
     locations |-> <<>>, edges |-> <<>>]

\* for module in &modules { let _ = storage.put_module(module).await; }
RECURSIVE seq_put_modules(_, _)
seq_put_modules(s, order) ==
    IF order = <<>> THEN s
    ELSE seq_put_modules(
            IF fk_module_parent(s.modules, Head(order))
            THEN [s EXCEPT !.modules = modules_upsert(@, Head(order))]
            ELSE s,
            Tail(order))

\* the body of `for chunk in &chunks` after a successful put
seq_chunk(s, chunk, file_path) ==
    LET e == embed(chunk)
        location == ChunkLocation_new(chunk.content_hash, file_path, 0,
                        chunk.byte_size, chunk.line_start, chunk.line_end)
    IN  [s EXCEPT
           !.chunks = chunks_insert_or_replace(@, ChunkRow(chunk)),
           !.chunks_fts = Append(@, FtsRow(chunk)),
           !.embeddings = IF e.ok
                          THEN embeddings_insert_or_replace(@,
                                  [content_hash |-> chunk.content_hash,
                                   model_id     |-> e.embedding.model_id,
                                   vector       |-> e.embedding.vector,
                                   dimensions   |-> e.embedding.dimensions])
                          ELSE @,
           !.locations = locations_insert_or_replace(@, location)]

\* for chunk in &chunks { ... }: `?` leaves run_index at a failing put
RECURSIVE seq_chunks(_, _, _, _)
seq_chunks(s, cs, module_id, file_path) ==
    IF cs = <<>> THEN [ok |-> TRUE, store |-> s]
    ELSE LET chunk == IF module_id # None
                      THEN with_module_id(Head(cs), module_id[1]) ELSE Head(cs)
         IN  IF ~fk_chunk_module(s.modules, chunk.module_id)
             THEN [ok |-> FALSE, store |-> s]
             ELSE seq_chunks(seq_chunk(s, chunk, file_path), Tail(cs),
                             module_id, file_path)

\* the walk loop of run_index over the files left
RECURSIVE seq_files(_, _, _)
seq_files(s, files, order) ==
    IF files = <<>> THEN s
    ELSE LET file == Head(files)
             parsed == extract_file(file)
             r == seq_chunks(s, parsed.chunks,
                             get_module_id_for_file(order, file.path),
                             to_string_lossy(file.path))
             x == add_edges_tx(r.store.chunks, r.store.edges, parsed.edges)
         IN  IF ~parsed.ok THEN seq_files(s, Tail(files), order)
             ELSE IF ~r.ok THEN r.store
             ELSE IF parsed.edges = <<>> THEN seq_files(r.store, Tail(files), order)
             ELSE IF ~x.ok THEN r.store
             ELSE seq_files([r.store EXCEPT !.edges = x.edges], Tail(files), order)

\* DefaultCodeMateService::run_index
run_index(s, w, order) ==
    seq_files(seq_put_modules(s, order), Worlds[w].files, order)

-----------------------------------------------------------------------------
(* The server: two index requests whose tasks run at the same time *)

\* DefaultCodeMateService::index: tokio::spawn(run_index(..)), up to
\* detect_modules
SrvStart ==
    /\ \E t \in TaskIds, w \in SrvWorlds :
         \E order \in IterationOrders(detect_modules(Worlds[w].dirs)) :
            /\ tasks[t].pc = "idle"
            /\ SetTask(t, StartedTask("server", w, order))
    /\ UNCHANGED <<storeVars, ret, hist, runs, qres, reader>>

SrvFrame == UNCHANGED <<ret, hist, runs, qres, reader>>

NextConc ==
    \/ SrvStart
    \/ (\E t \in TaskIds : PutModuleStep(t)) /\ SrvFrame
    \/ (\E t \in TaskIds : WalkStep(t)) /\ SrvFrame
    \/ (\E t \in TaskIds : ChunkPutStep(t)) /\ SrvFrame
    \/ (\E t \in TaskIds : ChunkEmbedStep(t)) /\ SrvFrame
    \/ (\E t \in TaskIds : ChunkLocStep(t)) /\ SrvFrame
    \/ (\E t \in TaskIds : EdgesStep(t)) /\ SrvFrame

SpecConc == Init /\ [][NextConc]_vars

BothEnded == \A t \in TaskIds : tasks[t].pc \in {"done", "aborted"}

\* the store after task 1's run followed by task 2's
OneThenTwo ==
    run_index(run_index(EmptyStore, tasks[1].w, tasks[1].order),
              tasks[2].w, tasks[2].order)

\* C6: when both tasks have ended, the chunk rows, the embeddings, the
\* locations and the multiset of edges are those of running task 1 and then
\* task 2, whatever the interleaving of their store calls was
C6_FinalStateOfAnyInterleaving ==
    BothEnded =>
        /\ chunks = OneThenTwo.chunks
        /\ SeqToBag(embeddings) = SeqToBag(OneThenTwo.embeddings)
        /\ SeqToBag(locations) = SeqToBag(OneThenTwo.locations)
        /\ SeqToBag(edges) = SeqToBag(OneThenTwo.edges)

-----------------------------------------------------------------------------
(* The server: a module-graph request while an index task runs.  Each lock *)
(* of self.conn in get_unified_graph is a step of the reader.              *)

\* the tables the graph statements read
Snap(mods, cs, es) == [modules |-> mods, chunks |-> cs, edges |-> es]

ReaderActive == reader.pc \in {"modules", "deps", "edges"}

\* a write made while the request is under way, noted with the states the
\* request has lived through
Observed ==
    reader' = IF ReaderActive
              THEN [reader EXCEPT !.seen = @ \cup {Snap(modules', chunks', edges')}]
              ELSE reader

RdFrame == UNCHANGED <<ret, hist, runs, qres>> /\ Observed

\* the tree the index request is for
RdWorlds == {1}

RdStart ==
    /\ tasks[1].pc = "idle"
    /\ \E w \in RdWorlds :
         \E order \in IterationOrders(detect_modules(Worlds[w].dirs)) :
            SetTask(1, StartedTask("server", w, order))
    /\ UNCHANGED <<storeVars, ret, hist, runs, qres, reader>>

ReadFrame == UNCHANGED <<storeVars, ret, hist, tasks, runs, qres>>

\* get_module_graph -> get_unified_graph(level, None, include_edges) is called
GraphCall ==
    /\ reader.pc = "idle"
    /\ \E level \in {"crate", "module"}, include_edges \in BOOLEAN :
         reader' = [pc |-> "modules", level |-> level,
                    include_edges |-> include_edges,
                    todo |-> <<>>, pending |-> {}, cur_deps |-> {},
                    result |-> {},
                    seen |-> {Snap(modules, chunks, edges)}]
    /\ ReadFrame

\* the entry of the current module is pushed and the loop goes on
PushEntry(deps) ==
    [reader EXCEPT !.result = @ \cup {[module |-> Head(reader.todo), deps |-> deps]},
                   !.todo = Tail(@),
                   !.pending = {},
                   !.cur_deps = {},
                   !.pc = IF Len(reader.todo) = 1 THEN "done" ELSE "deps"]

\* 1. target_modules = self.get_all_modules().await?, in table order
GraphModules ==
    /\ reader.pc = "modules"
    /\ \E todo \in PermSeqs(target_modules(reader.level, modules)) :
         reader' = [reader EXCEPT !.todo = todo,
                                  !.pc = IF todo = <<>> THEN "done" ELSE "deps"]
    /\ ReadFrame

\* deps_raw of the next module, in one lock
GraphDeps ==
    /\ reader.pc = "deps"
    /\ LET raw == deps_raw(reader.level, modules, chunks, edges, Head(reader.todo).id)
       IN  reader' = IF reader.include_edges /\ raw # {}
                     THEN [reader EXCEPT !.pending = raw, !.pc = "edges"]
                     ELSE PushEntry({[target_id |-> d.target_id, count |-> d.count,
                                      edges |-> IF reader.include_edges
                                                THEN Some({}) ELSE None] : d \in raw})
    /\ ReadFrame

\* the edge statement of the next dependency (ORDER BY edge_count DESC), in
\* one lock
GraphEdgeDetails ==
    /\ reader.pc = "edges"
    /\ \E d \in reader.pending :
         /\ \A o \in reader.pending : d.count >= o.count
         /\ LET entry == Dependency(TRUE, modules, chunks, edges,
                                    Head(reader.todo).id, d)
                deps == reader.cur_deps \cup {entry}
            IN  reader' = IF reader.pending = {d}
                          THEN PushEntry(deps)
                          ELSE [reader EXCEPT !.pending = @ \ {d},
                                              !.cur_deps = deps]
    /\ ReadFrame

NextRead ==
    \/ RdStart
    \/ PutModuleStep(1) /\ RdFrame
    \/ WalkStep(1) /\ RdFrame
    \/ ChunkPutStep(1) /\ RdFrame
    \/ ChunkEmbedStep(1) /\ RdFrame
    \/ ChunkLocStep(1) /\ RdFrame
    \/ EdgesStep(1) /\ RdFrame
    \/ GraphCall
    \/ GraphModules
    \/ GraphDeps
    \/ GraphEdgeDetails

SpecRead == Init /\ [][NextRead]_vars

\* C10: the result of a get_unified_graph call is the rollup of one state the
\* tables were in during the call
C10_ResultOfOneState ==
    reader.pc = "done" =>
        \E s \in reader.seen :
            reader.result = unified_graph(reader.level, reader.include_edges,
                                          s.modules, s.chunks, s.edges)

-----------------------------------------------------------------------------
(* Requests served after an index run: the dependency tree of a symbol or *)
(* the forest of all roots (the server's get_tree, `codemate graph tree`), *)
(* the module graph and the module cycles                                  *)

\* depth: usize, its greatest value standing for no limit
usize_MAX == 2147483647

TreeDepths == {0, 1, 5, usize_MAX}

TreeSymbols == {<<"A">>, <<"p">>, <<"s">>}

\* the trees that are indexed a second time before the request
ReindexWorlds == {11}

\* `codemate index`, and the same command again over the same tree once the
\* run before has ended: a later run has a detector of its own
RequestIndex ==
    /\ tasks[1].pc \in {"idle", "done"}
    /\ reader.pc = "idle"
    /\ runs.started < MaxRuns
    /\ \E w \in RequestWorlds :
         \E order \in IterationOrders(detect_modules(Worlds[w].dirs)) :
            /\ runs.started > 0 => (w = runs.w /\ w \in ReindexWorlds)
            /\ SetTask(1, StartedTask("simple", w, order))
            /\ runs' = [started |-> runs.started + 1, w |-> w, mode |-> "simple",
                        prev_ok |-> tasks[1].pc = "done",
                        before  |-> [modules |-> modules, chunks |-> chunks,
                                     edges |-> edges]]
    /\ UNCHANGED <<storeVars, ret, hist, qres, reader>>

RequestFrame == UNCHANGED <<storeVars, ret, hist, tasks, runs, qres>>

\* the request: the targets are read and the first call is pending
TreeCall ==
    /\ tasks[1].pc = "done"
    /\ reader.pc = "idle"
    /\ \E impl \in {"service", "cli"}, all \in BOOLEAN, max_depth \in TreeDepths,
          symbol \in {None} \cup {Some(n) : n \in TreeSymbols} :
         \E targets \in tree_targets(impl, symbol, all) :
            /\ impl = "service" => ~all
            /\ reader' = [pc        |-> IF targets = <<>> THEN "done" ELSE "tree",
                          impl      |-> impl,
                          symbol    |-> symbol,
                          all       |-> all,
                          max_depth |-> max_depth,
                          targets   |-> targets,
                          stack     |-> root_calls(targets),
                          visited   |-> {},
                          output    |-> <<>>,
                          expanded  |-> <<>>,
                          calls     |-> 0]
    /\ RequestFrame

\* the next call of the renderer
TreeVisit ==
    /\ reader.pc = "tree"
    /\ LET rd == IF reader.impl = "service" THEN render_recursive(reader)
                 ELSE render_tree_recursive(reader)
       IN  reader' = [rd EXCEPT !.pc = IF rd.stack = <<>> THEN "done" ELSE "tree"]
    /\ RequestFrame

\* find_module_cycles over the stored modules, chunks and edges
CyclesRequest ==
    /\ tasks[1].pc = "done"
    /\ reader.pc = "idle"
    /\ \E found \in find_module_cycles(modules, chunks, edges) :
         reader' = [pc |-> "cycles", adj |-> found.adj, cycles |-> found.cycles]
    /\ RequestFrame

\* get_module_graph: the rollup at a level
ModuleGraphRequest ==
    /\ tasks[1].pc = "done"
    /\ reader.pc = "idle"
    /\ \E level \in {"crate", "module"}, include_edges \in BOOLEAN :
         reader' = [pc |-> "modules", level |-> level, include_edges |-> include_edges,
                    result |-> unified_graph(level, include_edges, modules, chunks, edges)]
    /\ RequestFrame

NextRequests ==
    \/ RequestIndex
    \/ PutModuleStep(1) /\ CliFrame
    \/ WalkStep(1) /\ CliFrame
    \/ ChunkPutStep(1) /\ CliFrame
    \/ ChunkEmbedStep(1) /\ CliFrame
    \/ ChunkLocStep(1) /\ CliFrame
    \/ EdgesStep(1) /\ CliFrame
    \/ TreeCall
    \/ TreeVisit
    \/ CyclesRequest
    \/ ModuleGraphRequest

SpecRequests == Init /\ [][NextRequests]_vars

\* the pairs (name, target) of the symbol graph
DependencyPairs ==
    {<<c.symbol_name[1], e.target_query>> :
        <<c, e>> \in {ce \in chunks \X Range(edges) :
                        ce[1].symbol_name # None
                            /\ ce[2].source_hash = ce[1].content_hash}}

\* C14: in a traversal no name has its dependencies looked up twice, and the
\* calls made and pending never exceed the targets plus the pairs of the
\* symbol graph: the traversal ends, whatever max_depth
C14_EachNameExpandedOnce ==
    reader.pc \in {"tree", "done"} =>
        /\ \A i, j \in DOMAIN reader.expanded :
              i # j => reader.expanded[i] # reader.expanded[j]
        /\ reader.calls + Len(reader.stack)
              <= Len(reader.targets) + Cardinality(DependencyPairs)

\* an unbounded traversal of the two functions that call each other has ended
C14_Witness_CycleUnbounded ==
    /\ reader.pc = "done"
    /\ reader.max_depth = usize_MAX
    /\ reader.expanded = <<<<"A">>, <<"B">>>>
    /\ \E i \in DOMAIN reader.output : reader.output[i].line = "cycle"

\* the node lines whose symbol is on an earlier node line of the output
Reencountered ==
    {i \in DOMAIN reader.output :
        /\ reader.output[i].line = "node"
        /\ \E j \in 1..(i - 1) : /\ reader.output[j].line = "node"
                                  /\ reader.output[j].symbol = reader.output[i].symbol}

\* the line after line i is the cycle marker of its node
MarkedAt(i) ==
    /\ i + 1 \in DOMAIN reader.output
    /\ reader.output[i + 1] = CycleLine(reader.output[i].symbol, reader.output[i].depth)

\* no line of the output is below the node of line i
NothingBelow(i) ==
    \A j \in DOMAIN reader.output :
        (j > i /\ reader.output[j].line = "node"
            /\ \A m \in (i + 1)..(j - 1) : reader.output[m].line = "cycle")
        => reader.output[j].depth <= reader.output[i].depth

\* from A with depth 5, over the two functions that call each other
FromAWithDepth5 ==
    /\ tasks[1].w = 6
    /\ reader.pc = "done"
    /\ reader.targets = <<<<"A">>>>
    /\ reader.max_depth = 5

OutputABA ==
    reader.output = <<NodeLine(<<"A">>, 0), NodeLine(<<"B">>, 1), NodeLine(<<"A">>, 2),
                      CycleLine(<<"A">>, 2)>>

DependsOn(S, T) ==
    \E d \in deps_raw("module", modules, chunks, edges, S) : d.target_id = T

\* C16: every reported cycle closes on its first module, and each module of
\* it depends on the next one
C16_ReportedCyclesAreReal ==
    reader.pc = "cycles" =>
        \A i \in DOMAIN reader.cycles :
            LET c == reader.cycles[i]
            IN  /\ Len(c) >= 2
                /\ c[Len(c)] = c[1]
                /\ \A k \in 1..(Len(c) - 1) : DependsOn(c[k], c[k + 1])

\* a cycle that does not start at the first module of the search path
C16_Witness_CycleBelowEntry ==
    /\ reader.pc = "cycles"
    /\ \E i \in DOMAIN reader.cycles :
          /\ Len(reader.cycles[i]) = 3
          /\ \E m \in ModuleIds(modules) :
                m \notin Range(reader.cycles[i]) /\ DependsOn(m, reader.cycles[i][1])

\* the pairs of the module dependency graph, and the modules reached from a
\* module along them
DependencyEdges ==
    {p \in ModuleIds(modules) \X ModuleIds(modules) : DependsOn(p[1], p[2])}

RECURSIVE ReachedFrom(_)
ReachedFrom(S) ==
    LET next == S \cup {p[2] : p \in {q \in DependencyEdges : q[1] \in S}}
    IN  IF next = S THEN S ELSE ReachedFrom(next)

Cyclic ==
    \E p \in DependencyEdges : p[1] \in ReachedFrom({p[2]})

\* the dependency that closes a reported cycle
ClosingEdge(c) == <<c[Len(c) - 1], c[Len(c)]>>

\* the modules depend on each other in one ring of three and in no other way
RingOfThree(m1, m2, m3) ==
    /\ Cardinality({m1, m2, m3}) = 3
    /\ DependencyEdges = {<<m1, m2>>, <<m2, m3>>, <<m3, m1>>}

\* C17: the list is empty exactly when the module dependency graph has no
\* cycle, no two reported cycles close on the same dependency, and a ring
\* of three modules is reported as one cycle of these three
C17_OneCyclePerBackEdge ==
    reader.pc = "cycles" =>
        /\ (reader.cycles = <<>>) <=> ~Cyclic
        /\ \A i, j \in DOMAIN reader.cycles :
              i # j => ClosingEdge(reader.cycles[i]) # ClosingEdge(reader.cycles[j])
        /\ \A m1, m2, m3 \in ModuleIds(modules) :
              RingOfThree(m1, m2, m3) =>
                  /\ Len(reader.cycles) = 1
                  /\ Len(reader.cycles[1]) = 4
                  /\ Range(reader.cycles[1]) = {m1, m2, m3}

\* the ring of the crates a, b, c, reported starting from b
C17_Witness_RingFromB ==
    /\ reader.pc = "cycles"
    /\ RingOfThree("a", "b", "c")
    /\ reader.cycles = <<<<"b", "c", "a", "b">>>>

\* the count a Dependency list gives for a target, 0 when it is not listed
ReportedCount(deps, T) ==
    IF \E d \in deps : d.target_id = T
    THEN (CHOOSE d \in deps : d.target_id = T).count
    ELSE 0

\* rule (a): the edge's target_query is the symbol name of a chunk rolling up
\* to crate T; rule (b): no chunk has that symbol name and the target_query
\* is T's name, or the name with - as _, or starts with either and "::"
DirectTo(i, T) ==
    \E c2 \in chunks :
        /\ symbol_equals(edges[i].target_query, c2.symbol_name)
        /\ T \in crates_of(crate_map(modules), c2.module_id)

NamesCrate(target_query, name) ==
    \/ target_query = name
    \/ target_query = replace_dash(name)
    \/ starts_with(target_query, name \o <<":", ":">>)
    \/ starts_with(target_query, replace_dash(name) \o <<":", ":">>)

PrefixTo(i, T) ==
    /\ ~\E c3 \in chunks : symbol_equals(edges[i].target_query, c3.symbol_name)
    /\ \E m \in modules :
          /\ m.id = T
          /\ m.project_type # "directory"
          /\ NamesCrate(edges[i].target_query, m.name)

\* the edges from chunks rolling up to crate S that resolve to crate T
CrateEdgesBetween(S, T) ==
    {i \in DOMAIN edges :
        /\ \E c1 \in chunks : /\ edges[i].source_hash = c1.content_hash
                              /\ S \in crates_of(crate_map(modules), c1.module_id)
        /\ (DirectTo(i, T) \/ PrefixTo(i, T))}

\* C18: at level crate the count reported for a pair of distinct crates is
\* the number of edges from chunks rolling up to the source crate that resolve
\* to the target crate by the direct rule or, when no chunk has the exact
\* name, by the prefix rule; no edge resolves by both rules, and an edge adds
\* at most 1 to the count of a pair
C18_CrateCountIsEdgeCount ==
    (reader.pc = "modules" /\ reader.level = "crate") =>
        \A entry \in reader.result :
            \A T \in ModuleIds(modules) \ {entry.module.id} :
                /\ ReportedCount(entry.deps, T)
                      = Cardinality(CrateEdgesBetween(entry.module.id, T))
                /\ \A i \in DOMAIN edges : ~(DirectTo(i, T) /\ PrefixTo(i, T))

\* an edge resolves to a chunk by the chunk's name, or by the name followed
\* by "::"; the edges of the chunks of S that resolve to a chunk of T
Resolves(target_query, c) ==
    /\ c.symbol_name # None
    /\ (target_query = c.symbol_name[1]
          \/ starts_with(target_query, c.symbol_name[1] \o <<":", ":">>))

EdgesBetween(S, T) ==
    {i \in DOMAIN edges :
        \E c1, c2 \in chunks : /\ edges[i].source_hash = c1.content_hash
                               /\ c1.module_id = Some(S)
                               /\ c2.module_id = Some(T)
                               /\ Resolves(edges[i].target_query, c2)}

\* C19: at level module the count reported for a pair of distinct modules is
\* the number of edges of chunks of the source module that resolve to a chunk
\* of the target module, an edge counted once however many chunks of the
\* target match it, and no module is listed among its own dependencies
C19_ModuleCountIsEdgeCount ==
    (reader.pc = "modules" /\ reader.level = "module") =>
        \A entry \in reader.result :
            /\ \A T \in ModuleIds(modules) \ {entry.module.id} :
                  ReportedCount(entry.deps, T)
                      = Cardinality(EdgesBetween(entry.module.id, T))
            /\ \A d \in entry.deps : d.target_id # entry.module.id

\* the directories scanned by the run, and the modules it detected
ScannedDirs == Worlds[tasks[1].w].dirs
Detected == Range(tasks[1].order)

\* C20: in a run of the detector two scanned directories of different
\* relative paths have different ids, the root included, the detected modules
\* have one id per path and one path per id, and every scanned directory has
\* its module among them
C20_IdDeterminesPath ==
    tasks[1].pc # "idle" =>
        /\ \A i, j \in DOMAIN ScannedDirs :
              ScannedDirs[i].path # ScannedDirs[j].path
                  => current_id(ScannedDirs[i].path) # current_id(ScannedDirs[j].path)
        /\ \A m1, m2 \in Detected : (m1.id = m2.id) <=> (m1.path = m2.path)
        /\ \A i \in DOMAIN ScannedDirs :
              \E m \in Detected : m.path = ScannedDirs[i].path

-----------------------------------------------------------------------------
(* Claims settled against the command-line and the request specifications *)

\* C21: at every point of an index run each stored module that has a
\* parent_id has a stored module of that id, no stored module is its own
\* ancestor, and the module about to be written has its parent stored: the
\* write of a detected module never fails on the parent reference
C21_ParentsWrittenFirst ==
    /\ \A m \in modules :
          m.parent_id # None =>
              /\ m.parent_id[1] \in ModuleIds(modules)
              /\ m.id \notin ancestors_or_self(modules, m.parent_id[1],
                                               Cardinality(modules))
    /\ \A t \in TaskIds :
          tasks[t].pc = "modules" => put_module_ok(tasks[t].order[tasks[t].mi + 1])

\* the hashes a caller may ask for: those of the chunks it may put, and one
\* that is never put
AskedHashes == {c.content_hash : c \in ApiChunks} \cup {from_content(<<7>>)}

\* C22: the chunk read back by get after a put is the chunk that was put, in
\* content, symbol_name, language, kind, line range, byte_size and module_id,
\* and get of a hash that was never put gives none
C22_GetReturnsWhatWasPut ==
    /\ (ret.op = "put" /\ ret.ok) =>
          ChunkStore_get(ret.batch[1].content_hash) = Some(ret.batch[1])
    /\ \A h \in AskedHashes \ hist.puts : ChunkStore_get(h) = None

\* a request for the forest of all roots, and the symbols it rendered a tree for
ForestMode ==
    /\ reader.pc \in {"tree", "done"}
    /\ (reader.symbol = None \/ (reader.impl = "cli" /\ reader.all))

RenderedRoots ==
    {reader.output[i].symbol :
        i \in {k \in DOMAIN reader.output :
                 reader.output[k].line = "node" /\ reader.output[k].depth = 0}}

\* C23: a finished forest request has rendered a tree for exactly the roots
\* (chunk names that are no edge's target) with at least one outgoing edge;
\* a root whose chunks have no outgoing edge is passed over
C23_ForestSkipsRootsWithoutEdges ==
    (ForestMode /\ reader.pc = "done") =>
        RenderedRoots = {r \in get_roots : has_edges(r)}

\* the nearest module at or above id that is not a directory, by the parent
\* references of the stored modules; None when there is none
RECURSIVE NearestCrate(_, _)
NearestCrate(id, fuel) ==
    IF fuel = 0 \/ id \notin ModuleIds(modules) THEN None
    ELSE LET m == CHOOSE x \in modules : x.id = id
         IN  IF m.project_type # "directory" THEN Some(id)
             ELSE IF m.parent_id = None THEN None
             ELSE NearestCrate(m.parent_id[1], fuel - 1)

CrateAbove(id) == NearestCrate(id, Cardinality(modules))

\* the edges of chunks of directory d that resolve to a chunk of crate T
DirectFrom(d, T) ==
    {i \in DOMAIN edges :
        /\ \E c1 \in chunks : /\ edges[i].source_hash = c1.content_hash
                              /\ c1.module_id = Some(d)
        /\ DirectTo(i, T)}

CrateLevelRequest == reader.pc = "modules" /\ reader.level = "crate"

\* C24 as stated: at level crate every module maps to exactly one crate, a
\* directory to the nearest module above it that is not a directory and
\* every other module to itself
C24_EveryModuleInOneCrate ==
    CrateLevelRequest =>
        \A m \in modules :
            /\ CrateAbove(m.id) # None
            /\ crates_of(crate_map(modules), Some(m.id)) = {CrateAbove(m.id)[1]}

\* C24: at level crate a directory maps to one crate, the nearest module
\* above it that is not a directory (to none when there is none), every other
\* module maps to itself alone, and an edge of a chunk in a directory below
\* crate S that resolves to another crate T is among the rows counted for
\* (S, T) and T is listed for S
C24_DirectoriesCollapseToNearestCrate ==
    CrateLevelRequest =>
        /\ \A m \in modules :
              crates_of(crate_map(modules), Some(m.id))
                  = {x[1] : x \in {CrateAbove(m.id)} \ {None}}
        /\ \A d \in modules, T \in ModuleIds(modules) :
              (d.project_type = "directory" /\ CrateAbove(d.id) \notin {None, Some(T)})
                  => \A i \in DirectFrom(d.id, T) :
                        /\ \E row \in direct_rows(modules, chunks, edges,
                                                  CrateAbove(d.id)[1], T) :
                              row[1][1] = i
                        /\ \E entry \in reader.result :
                              /\ entry.module.id = CrateAbove(d.id)[1]
                              /\ ReportedCount(entry.deps, T) >= 1

\* a call from the directory b::d is counted for its crate b
C24_Witness_DirectoryEdgeInCrate ==
    /\ CrateLevelRequest
    /\ CrateAbove("b::d") = Some("b")
    /\ DirectFrom("b::d", "a") # {}
    /\ \E entry \in reader.result :
          entry.module.id = "b" /\ ReportedCount(entry.deps, "a") >= 2

\* the detected modules whose path is a prefix of a file's relative path, and
\* the one of the longest path among them
MatchingModules(mods, rel_path) == {m \in mods : starts_with(rel_path, m.path)}

DeepestMatch(mods, rel_path) ==
    CHOOSE m \in MatchingModules(mods, rel_path) :
        \A o \in MatchingModules(mods, rel_path) : Len(o.path) <= Len(m.path)

\* C25: in a run, the module id found for each file of the tree is the id of
\* the matching module of the longest path, whatever the order in which the
\* detector goes through its modules
C25_DeepestModuleChosen ==
    \A t \in TaskIds :
        tasks[t].pc # "idle" =>
            \A i \in DOMAIN Worlds[tasks[t].w].files :
                LET rel_path == Worlds[tasks[t].w].files[i].path
                    mods == Range(tasks[t].order)
                IN  MatchingModules(mods, rel_path) # {} =>
                        get_module_id_for_file(tasks[t].order, rel_path)
                            = Some(DeepestMatch(mods, rel_path).id)

\* the tree has been indexed again after a run that ended, and the later run
\* left the module and chunk rows as they were
IndexedAgain ==
    /\ runs.started >= 2
    /\ runs.prev_ok
    /\ tasks[1].pc = "done"
    /\ modules = runs.before.modules
    /\ chunks = runs.before.chunks

\* the (source, target, count) triples of a module graph
CountsOf(result) ==
    {<<entry.module.id, d.target_id, d.count>> :
        <<entry, d>> \in {p \in result \X UNION {e.deps : e \in result} :
                            p[2] \in p[1].deps}}

\* the names a symbol depended on in the store the run before had left
DepsBefore(symbol) ==
    {e.target_query :
        e \in {x \in Range(runs.before.edges) :
                 \E c \in runs.before.chunks :
                    c.symbol_name = Some(symbol) /\ x.source_hash = c.content_hash}}

\* C26: after the same tree has been indexed again, the dependency list of
\* every symbol in the tree traversal and the counts of the module-level and
\* crate-level graphs are those of the store the run before had left
C26_ReindexKeepsListsAndCounts ==
    IndexedAgain =>
        /\ \A c \in {x \in chunks : x.symbol_name # None} :
              Range(all_deps(c.symbol_name[1])) = DepsBefore(c.symbol_name[1])
        /\ reader.pc = "modules" =>
              CountsOf(reader.result)
                  = CountsOf(unified_graph(reader.level, FALSE, runs.before.modules,
                                           runs.before.chunks, runs.before.edges))

\* C27: for every file of a run, each edge the parser returns has the hash of
\* one of the chunks of the same parse as its source, and the file's batch,
\* added after the file's chunks, is accepted: all its sources are stored
C27_EdgeSourcesAmongParsedChunks ==
    \A t \in TaskIds :
        /\ tasks[t].pc # "idle" =>
              \A i \in DOMAIN Worlds[tasks[t].w].files :
                  LET parsed == extract_file(Worlds[tasks[t].w].files[i])
                  IN  \A e \in Range(parsed.edges) :
                          \E c \in Range(parsed.chunks) :
                              e.source_hash = c.content_hash
        /\ tasks[t].pc = "edges" =>
              \A e \in Range(CurParsed(t).edges) : fk_edge_source(chunks, e)

\* the symbols above line i on its path: for each smaller depth, the symbol
\* of the last node line of that depth before i
AncestorSymbols(i) ==
    {reader.output[k].symbol :
        k \in {j \in 1..(i - 1) :
                 /\ reader.output[j].line = "node"
                 /\ reader.output[j].depth < reader.output[i].depth
                 /\ \A m \in (j + 1)..(i - 1) :
                       reader.output[m].line = "node"
                           => reader.output[m].depth > reader.output[j].depth}}

\* C28: a node line is followed by the cycle marker only when its symbol is
\* the symbol of a node above it on its path; a symbol met again on another
\* branch or under a later root has no marker
C28_MarkerOnlyOnRealCycle ==
    reader.pc \in {"tree", "done"} =>
        \A i \in DOMAIN reader.output :
            (reader.output[i].line = "node" /\ MarkedAt(i))
                => reader.output[i].symbol \in AncestorSymbols(i)

\* the rows of chunks_fts of a content hash
FtsRowsOf(hash) == {i \in DOMAIN chunks_fts : chunks_fts[i].content_hash = hash}

\* C29: chunks_fts holds exactly one row for each row of chunks and no other
\* row, and no content hash is at two positions of the lexical list of a query
C29_OneFtsRowPerChunk ==
    /\ \A c \in chunks : Cardinality(FtsRowsOf(c.content_hash)) = 1
    /\ \A i \in DOMAIN chunks_fts : chunks_fts[i].content_hash \in ChunkHashes(chunks)
    /\ qres.ran =>
          \A h \in Range(qres.lexical) : Cardinality(Positions(qres.lexical, h)) = 1

\* the number of entries of an edge list given as a bag
RECURSIVE ListLength(_)
ListLength(bag) ==
    IF bag = {} THEN 0
    ELSE LET x == CHOOSE y \in bag : TRUE
         IN  x.n + ListLength(bag \ {x})

\* the edges behind the rows counted for a pair, and behind the rows listed
CountedEdges(level, S, T) ==
    IF level = "crate"
    THEN {row[1][1] : row \in direct_rows(modules, chunks, edges, S, T)}
         \cup UNION {{r[1] : r \in prefix_rows(modules, chunks, edges, S, m2)} :
                       m2 \in {m \in modules : m.id = T}}
    ELSE {row[1][1] : row \in module_edges_rows(modules, chunks, edges, S, T)}

ListedEdges(S, T) == {row[1][1] : row \in edge_rows(modules, chunks, edges, S, T)}

\* C30: with include_edges every dependency of the module graph carries an
\* edge list whose length is the dependency's count and whose entries come
\* from the edges that were counted for the pair
C30_EdgeDetailsAreTheCountedEdges ==
    (reader.pc = "modules" /\ reader.include_edges) =>
        \A entry \in reader.result :
            \A d \in entry.deps :
                /\ d.edges # None
                /\ ListLength(d.edges[1]) = d.count
                /\ ListedEdges(entry.module.id, d.target_id)
                      = CountedEdges(reader.level, entry.module.id, d.target_id)

=============================================================================
